---- MODULE Spec2Model ----
(***************************************************************************)
(* Media Stickies: the card/avatar registry of the main process            *)
(* (modules_main/card.ts), the main-process entry (main.ts) and the        *)
(* renderer's debounced save (renderer.ts).                                *)
(*                                                                         *)
(* Strings are sequences of tokens, so that `loc + id` is \o and the       *)
(* decomposition of an avatar url is computed, not assumed.                *)
(***************************************************************************)
EXTENDS Integers, Sequences, FiniteSets, TLC

VARIABLES
  cards,      \* cards: Map<string, Card>, id -> CardProp of the Card
  avatars,    \* avatars: Map<string, Avatar>, url -> Avatar
  windows,    \* the BrowserWindows that are not destroyed: window -> url of its Avatar
  nextWin,    \* the next BrowserWindow to be constructed
  wsAvatars,  \* getCurrentWorkspace().avatars, the in-memory placement list
  cardStore,  \* CardIO: the persisted card records, id -> CardPropSerializable
  urlStore,   \* CardIO: the persisted placement list of the current workspace
  last,       \* what the last registry operation was given and how it ended
  nOps,       \* number of registry operations started so far
  retry,      \* the deleteCardWithRetry call in progress
  renderer,   \* one card window's renderer process (cardProp, save timers)
  launch,     \* app.on('ready'): whether it ran, and what it loaded and made
  gate,       \* globalFocusListenerPermission
  flags,      \* the focus flags of the Avatar that owns a window: window -> flags
  focused,    \* the card window that has the focus (0: none)
  events,     \* focus and blur events emitted and not yet handled
  sent,       \* card-focused / card-blurred messages sent to the windows
  winState,   \* title and size of the windows
  request,    \* the last request of a renderer
  awaiting,   \* windows whose blur-and-focus-with-suppress-events request awaits its focus event
  nFocus,     \* number of focus changes and requests so far
  page,       \* the Avatar objects and their web contents: window -> load and render state
  handlers,   \* ipcMain handlers of the finish-load channels: url -> handler
  allowed,    \* getSettings().persistent.navigationAllowedURLs
  nav         \* the last navigation a card window's content started, and what the guard did

\* The state of the focus protocol.
focusVars == <<gate, flags, focused, events, sent, winState, request, awaiting, nFocus>>

\* The web contents of the card windows: loading, rendering, navigation.
pageVars == <<page, handlers, allowed, nav>>

\* The state of the main process beside the registry.
uiVars == <<launch, focusVars, pageVars>>

vars == <<cards, avatars, windows, nextWin, wsAvatars, cardStore, urlStore,
          last, nOps, retry, renderer, uiVars>>

registryVars == <<cards, avatars, windows, nextWin, wsAvatars, cardStore, urlStore>>

-----------------------------------------------------------------------------
(* Bounds *)

MaxOps == 2

\* Registry operations that run beside one deleteCardWithRetry call.
MaxRetryOps == 1

\* resize-by-hand / move-by-hand events one card window receives.
MaxEvents == 3

\* Registry operations that follow the launch.
MaxLaunchOps == 1

\* Focus changes by the user and focus requests of the renderers.
MaxFocusOps == 2

\* Navigations the content of the card windows starts.
MaxNavOps == 2

\* Time passes in steps of these many milliseconds.
TickSteps == {400, 1000}

-----------------------------------------------------------------------------
(* Strings, urls and the values cards are made of *)

EmptyString == <<>>

CardIds == {<<"c1">>, <<"c2">>}

\* Avatar locations: two in the current workspace, one in another workspace.
LocW1A == <<"w1", "/", "a", "/">>
LocW1B == <<"w1", "/", "b", "/">>
LocW2A == <<"w2", "/", "a", "/">>

Locs == {LocW1A, LocW1B, LocW2A}

\* Enumeration order of the keys of a CardProp's avatars object.
LocOrder == <<LocW1A, LocW1B, LocW2A>>

getCurrentWorkspaceUrl == <<"w1", "/">>

Urls == {loc \o id : loc \in Locs, id \in CardIds}

Data == {"", "text"}

Feature0 ==
  [geometry |-> [x |-> 0, y |-> 0, z |-> 0, width |-> 3, height |-> 2],
   style |-> [backgroundColor |-> "yellow", opacity |-> 1],
   condition |-> [locked |-> FALSE],
   date |-> "t0"]

Feature1 ==
  [geometry |-> [x |-> 1, y |-> 1, z |-> 1, width |-> 4, height |-> 3],
   style |-> [backgroundColor |-> "blue", opacity |-> 0],
   condition |-> [locked |-> TRUE],
   date |-> "t1"]

Features == {Feature0, Feature1}

\* A placement in front of the others.
Feature2 == [Feature0 EXCEPT !.geometry.z = 2]

\* Maps (JavaScript objects and Maps) are functions with a finite domain.
EmptyMap == <<>>

Put(m, k, v) == [x \in (DOMAIN m) \cup {k} |-> IF x = k THEN v ELSE m[x]]

Del(m, k) == [x \in (DOMAIN m) \ {k} |-> m[x]]

Without(s, x) == SelectSeq(s, LAMBDA e : e # x)

Range(s) == {s[i] : i \in DOMAIN s}

\* Position of the last "/" of a url (0 when there is none).
LastSlash(u) ==
  IF \E i \in DOMAIN u : u[i] = "/"
    THEN CHOOSE i \in DOMAIN u : u[i] = "/" /\ \A j \in DOMAIN u : u[j] = "/" => j <= i
    ELSE 0

getIdFromUrl(u) == SubSeq(u, LastSlash(u) + 1, Len(u))

getAvatarLocation(u) == SubSeq(u, 1, LastSlash(u))

\* loc.match(workspaceUrl): the pattern occurs somewhere in loc.
Matches(loc, pattern) ==
  \E i \in 1..(Len(loc) - Len(pattern) + 1) :
    SubSeq(loc, i, i + Len(pattern) - 1) = pattern

-----------------------------------------------------------------------------
(* Property model *)

CardProp(id, data, avs) == [id |-> id, data |-> data, avatars |-> avs]

\* new AvatarProp(url, data, feature)
AvatarProp(url, data, feature) ==
  [url |-> url, data |-> data, geometry |-> feature.geometry,
   style |-> feature.style, condition |-> feature.condition, date |-> feature.date]

\* CardProp.fromObject / AvatarProp.fromObject on a well-formed payload
CardPropFromObject(obj) == CardProp(obj.id, obj.data, obj.avatars)

AvatarPropFromObject(obj) ==
  [url |-> obj.url, data |-> obj.data, geometry |-> obj.geometry,
   style |-> obj.style, condition |-> obj.condition, date |-> obj.date]

\* CardProp.toObject: the plain record CardIO stores
CardPropToObject(prop) ==
  [id |-> prop.id, data |-> prop.data,
   avatars |-> [loc \in DOMAIN prop.avatars |->
                  [geometry |-> prop.avatars[loc].geometry,
                   style |-> prop.avatars[loc].style,
                   condition |-> prop.avatars[loc].condition,
                   date |-> prop.avatars[loc].date]]]

-----------------------------------------------------------------------------
(* Persistence layer (CardIO) *)

\* CardIO.updateOrCreateCardData(prop): upsert; nothing is written when it fails
IOUpdateOrCreateCardData(store, prop, ok) ==
  IF ok THEN Put(store, prop.id, CardPropToObject(prop)) ELSE store

\* CardIO.deleteCardData(id) rejects on an I/O failure and on an unknown id
IODeleteCardDataSucceeds(store, id, ok) == ok /\ id \in DOMAIN store

IODeleteCardData(store, id, ok) ==
  IF IODeleteCardDataSucceeds(store, id, ok) THEN Del(store, id) ELSE store

\* CardIO.addAvatarUrl(workspaceId, url): the placement list is an ordered set
IOAddAvatarUrl(list, url, ok) ==
  IF ok /\ url \notin Range(list) THEN Append(list, url) ELSE list

\* CardIO.deleteAvatarUrl(workspaceId, url)
IODeleteAvatarUrl(list, url, ok) == IF ok THEN Without(list, url) ELSE list

-----------------------------------------------------------------------------
(* Registry helpers *)

getCardFromUrl(cs, url) ==
  IF getIdFromUrl(url) \in DOMAIN cs THEN {cs[getIdFromUrl(url)]} ELSE {}

\* Mutant: the Card keeps the id of its payload, empty or not.
CardNewKeepsId(prop, generated) == prop

\* new Card('New', prop): an empty id is replaced by a generated one
CardNew(prop, generated) ==
  IF prop.id = EmptyString THEN [prop EXCEPT !.id = generated] ELSE prop

\* Ids generateNewCardId() can return: uuids, fresh with respect to every id in use
IdsInUse ==
  (DOMAIN cards) \cup (DOMAIN cardStore)
    \cup {getIdFromUrl(u) : u \in (DOMAIN avatars) \cup Range(wsAvatars) \cup Range(urlStore)}

FreshIds == CardIds \ IdsInUse

\* new Avatar(prop): the Avatar and the BrowserWindow it owns
NewAvatar(prop, win) == [prop |-> prop, win |-> win, renderingCompleted |-> FALSE]

\* Mutant: the 'closed' listener leaves the registry as it is.
ClosedListenerKeeps(avs, av) == avs

\* window.destroy(): the window is gone and its 'closed' listener deregisters the url
ClosedListener(avs, av) == Del(avs, av.prop.url)

-----------------------------------------------------------------------------
(* Payloads the operations are given *)

\* The create-card payloads: a new card with one placement and no id, a card with
\* two placements in the current workspace, a card placed in two workspaces.
CardPropObjects ==
  { [id |-> EmptyString, data |-> "", avatars |-> [loc \in {LocW1A} |-> Feature0]],
    [id |-> <<"c1">>, data |-> "text",
     avatars |-> [loc \in {LocW1A, LocW1B} |-> IF loc = LocW1A THEN Feature0 ELSE Feature1]],
    [id |-> <<"c1">>, data |-> "",
     avatars |-> [loc \in {LocW1A, LocW2A} |-> IF loc = LocW1A THEN Feature1 ELSE Feature0]] }

\* The update-avatar payloads.
AvatarPropObjects ==
  {[url |-> u, data |-> c.data, geometry |-> c.feature.geometry, style |-> c.feature.style,
    condition |-> c.feature.condition, date |-> c.feature.date] :
     u \in Urls,
     c \in {[data |-> "text", feature |-> Feature1], [data |-> "", feature |-> Feature0]}}

NoObject == EmptyMap

\* The record kept of the last operation.
\* outcome: "ok" (the promise resolved, with ret), "error" (it rejected) or "noCard".
Done(op, id, url, obj, outcome, ret, renderFail, addFail, ioOk, wins) ==
  [op |-> op, id |-> id, url |-> url, obj |-> obj, outcome |-> outcome, ret |-> ret,
   renderFail |-> renderFail, addFail |-> addFail, ioOk |-> ioOk, wins |-> wins]

-----------------------------------------------------------------------------
(* createCard *)

\* Mutant: the loop without the test of the workspace.
RenderedLocsAll(prop) ==
  SelectSeq(LocOrder, LAMBDA loc : loc \in DOMAIN prop.avatars)

\* for (const loc in card.prop.avatars) if (loc.match(workspaceUrl)), in key order
RenderedLocs(prop) ==
  SelectSeq(LocOrder,
            LAMBDA loc : loc \in DOMAIN prop.avatars /\ Matches(loc, getCurrentWorkspaceUrl))

RECURSIVE AddAvatarUrls(_, _, _)
AddAvatarUrls(list, urls, addFail) ==
  IF urls = <<>> THEN list
  ELSE AddAvatarUrls(IOAddAvatarUrl(list, Head(urls), Head(urls) \notin addFail),
                     Tail(urls), addFail)

\* Mutant: Promise.all without the catch, a rejection ends createCard before saveCard.
CreateCardSavesIfAllResolved(renderFail, addFail) == renderFail = {} /\ addFail = {}

\* await Promise.all(promises).catch(log); await saveCard(card.prop)
\* A rejected render or addAvatarUrl is logged and the card is saved all the same.
CreateCardSaves(renderFail, addFail) == TRUE

\* The urls of the avatars createCard makes for a payload: loc + card.prop.id
CreatedUrls(obj, generated) ==
  LET prop == CardNew(CardPropFromObject(obj), generated)
  IN  {loc \o prop.id : loc \in Range(RenderedLocs(prop))}

\* return prop.id: prop is the object the Card constructor gave its id to
CreateCardReturns(obj, prop) == prop.id

\* CardProp.fromObject fails with a validation error when the id is malformed
ValidCardObject(obj) == Range(obj.id) \cap {"/", "#"} = {}

\* AvatarProp.fromObject fails with a validation error when the url is malformed: it
\* is a location followed by a card id
ValidAvatarObject(obj) ==
  /\ "/" \in Range(obj.url)
  /\ getIdFromUrl(obj.url) # EmptyString
  /\ getAvatarLocation(obj.url) \in Locs

\* Payloads that hydration rejects.
MalformedCardObjects ==
  {[id |-> <<"#">>, data |-> "text", avatars |-> [loc \in {LocW1A} |-> Feature0]]}

MalformedAvatarObjects ==
  {[url |-> u, data |-> "text", geometry |-> Feature1.geometry, style |-> Feature1.style,
    condition |-> Feature1.condition, date |-> Feature1.date] :
     u \in {LocW1A, <<"x", "/", "c1">>}}

\* Mutant: the validation error of fromObject is swallowed.
HydratedAlways(valid) == TRUE

\* const prop = CardProp.fromObject(propObject) / AvatarProp.fromObject(avatarPropObj):
\* the first statement of createCard and of updateAvatar; an error it throws ends the
\* operation there.
Hydrated(valid) == valid

\* The operation threw before it changed anything.
Thrown(op, obj) ==
  /\ UNCHANGED registryVars
  /\ last' = Done(op, EmptyString, EmptyString, obj, "invalid", EmptyString, {}, {}, TRUE, {})

createCard(obj, generated, renderFail, addFail, saveOk) ==
  IF ~Hydrated(ValidCardObject(obj)) THEN Thrown("createCard", obj) ELSE
  LET prop == CardNew(CardPropFromObject(obj), generated)
      id   == prop.id
      locs == RenderedLocs(prop)
      urls == [i \in 1..Len(locs) |-> locs[i] \o id]
      winOf(u) == nextWin + (CHOOSE i \in 1..Len(urls) : urls[i] = u) - 1
      made(u) ==
        [NewAvatar(AvatarProp(u, prop.data, prop.avatars[getAvatarLocation(u)]), winOf(u))
           EXCEPT !.renderingCompleted = (u \notin renderFail)]
      saved == CreateCardSaves(renderFail, addFail)
  IN  /\ cards' = Put(cards, id, prop)
      /\ avatars' = [u \in (DOMAIN avatars) \cup Range(urls) |->
                       IF u \in Range(urls) THEN made(u) ELSE avatars[u]]
      /\ windows' = [w \in (DOMAIN windows) \cup {winOf(u) : u \in Range(urls)} |->
                       IF w \in DOMAIN windows THEN windows[w]
                       ELSE urls[w - nextWin + 1]]
      /\ nextWin' = nextWin + Len(urls)
      /\ wsAvatars' = wsAvatars \o urls
      /\ urlStore' = AddAvatarUrls(urlStore, urls, addFail)
      /\ cardStore' = IF saved THEN IOUpdateOrCreateCardData(cardStore, prop, saveOk)
                      ELSE cardStore
      /\ last' = Done("createCard", id, EmptyString, obj,
                      IF saved THEN "ok" ELSE "error",
                      IF saved THEN CreateCardReturns(obj, prop) ELSE EmptyString,
                      renderFail, addFail, saveOk, {winOf(u) : u \in Range(urls)})

CreateCardFrom(objs) ==
  /\ nOps < MaxOps
  /\ \E obj \in objs, saveOk \in BOOLEAN :
       \E generated \in (IF obj.id = EmptyString THEN FreshIds ELSE {obj.id}) :
         \E renderFail \in SUBSET CreatedUrls(obj, generated),
            addFail \in SUBSET CreatedUrls(obj, generated) :
           createCard(obj, generated, renderFail, addFail, saveOk)
  /\ nOps' = nOps + 1
  /\ UNCHANGED <<retry, renderer, uiVars>>

CreateCard == CreateCardFrom(CardPropObjects)

-----------------------------------------------------------------------------
(* deleteCard *)

\* for (const key in card.prop.avatars) { const avatar = avatars.get(key); ... }
\* The keys of prop.avatars are locations; the keys of the avatars Map are urls.
AvatarKeysOfCard(prop) == {key \in DOMAIN prop.avatars : key \in DOMAIN avatars}

\* .then(() => cards.delete(id)) runs only when CardIO.deleteCardData resolved
DeleteCardSucceeds(id, ok) ==
  id \in DOMAIN cards /\ IODeleteCardDataSucceeds(cardStore, id, ok)

DeleteCardOutcome(id, ok) ==
  IF id \notin DOMAIN cards THEN "noCard"
  ELSE IF DeleteCardSucceeds(id, ok) THEN "ok" ELSE "error"

deleteCard(id, ok) ==
  IF id \notin DOMAIN cards
    THEN UNCHANGED registryVars
    ELSE
      LET keys == AvatarKeysOfCard(cards[id])
          wins == {avatars[k].win : k \in keys}
      IN  /\ avatars' = [u \in (DOMAIN avatars) \ (keys \cup {avatars[k].prop.url : k \in keys})
                           |-> avatars[u]]
          /\ windows' = [w \in (DOMAIN windows) \ wins |-> windows[w]]
          /\ cardStore' = IODeleteCardData(cardStore, id, ok)
          /\ cards' = IF DeleteCardSucceeds(id, ok) THEN Del(cards, id) ELSE cards
          /\ UNCHANGED <<nextWin, wsAvatars, urlStore>>

DestroyedByDeleteCard(id) ==
  IF id \in DOMAIN cards
    THEN {avatars[k].win : k \in AvatarKeysOfCard(cards[id])}
    ELSE {}

DeleteCard ==
  /\ nOps < MaxOps
  /\ \E id \in CardIds :
     \E ok \in (IF id \in DOMAIN cards THEN BOOLEAN ELSE {TRUE}) :
       /\ deleteCard(id, ok)
       /\ last' = Done("deleteCard", id, EmptyString, NoObject, DeleteCardOutcome(id, ok),
                       EmptyString, {}, {}, ok, DestroyedByDeleteCard(id))
  /\ nOps' = nOps + 1
  /\ UNCHANGED <<retry, renderer, uiVars>>

-----------------------------------------------------------------------------
(* deleteAvatar *)

\* Mutant: the filter drops every placement of the card, not only _url.
FilterPlacementsOfCard(list, url) ==
  SelectSeq(list, LAMBDA e : getIdFromUrl(e) # getIdFromUrl(url))

\* ws.avatars = ws.avatars.filter(avatarUrl => avatarUrl !== _url)
FilterPlacements(list, url) == Without(list, url)

\* Mutant: delete card.prop.avatars[_url], the url taken for the key.
DeletePlacementByUrl(prop, url) ==
  [prop EXCEPT !.avatars = Del(prop.avatars, url)]

\* delete card.prop.avatars[getAvatarLocation(_url)]
DeletePlacement(prop, url) ==
  [prop EXCEPT !.avatars = Del(prop.avatars, getAvatarLocation(url))]

\* An unguarded await CardIO.deleteAvatarUrl(...) that rejects ends deleteAvatar there.
deleteAvatar(url, delOk, saveOk) ==
  LET registered == url \in DOMAIN avatars
      aborted    == registered /\ ~delOk
      card       == getCardFromUrl(cards, url)
  IN  /\ avatars' = IF registered THEN ClosedListener(Del(avatars, url), avatars[url])
                    ELSE avatars
      /\ windows' = IF registered
                      THEN [w \in (DOMAIN windows) \ {avatars[url].win} |-> windows[w]]
                      ELSE windows
      /\ urlStore' = IF registered THEN IODeleteAvatarUrl(urlStore, url, delOk) ELSE urlStore
      /\ wsAvatars' = IF registered /\ ~aborted THEN FilterPlacements(wsAvatars, url)
                      ELSE wsAvatars
      /\ IF aborted \/ card = {}
           THEN UNCHANGED <<cards, cardStore>>
           ELSE \E c \in card :
                  /\ cards' = [cards EXCEPT ![c.id] = DeletePlacement(c, url)]
                  /\ cardStore' = IOUpdateOrCreateCardData(cardStore, DeletePlacement(c, url), saveOk)
      /\ UNCHANGED nextWin
      /\ last' = Done("deleteAvatar", getIdFromUrl(url), url, NoObject,
                      IF aborted THEN "error" ELSE "ok", EmptyString, {}, {},
                      (registered => delOk) /\ (card # {} => saveOk),
                      IF registered THEN {avatars[url].win} ELSE {})

DeleteAvatar ==
  /\ nOps < MaxOps
  /\ \E url \in Urls :
       \E delOk \in (IF url \in DOMAIN avatars THEN BOOLEAN ELSE {TRUE}),
          saveOk \in (IF getCardFromUrl(cards, url) # {} THEN BOOLEAN ELSE {TRUE}) :
         deleteAvatar(url, delOk, saveOk)
  /\ nOps' = nOps + 1
  /\ UNCHANGED <<retry, renderer, uiVars>>

-----------------------------------------------------------------------------
(* updateAvatar *)

\* const feature = { geometry, style, condition, date } of the hydrated AvatarProp
TransformableFeature(prop) ==
  [geometry |-> prop.geometry, style |-> prop.style,
   condition |-> prop.condition, date |-> prop.date]

\* Mutant: the placement feature is overwritten, the content is not.
OverwriteCardKeepsData(c, prop) ==
  [c EXCEPT !.avatars = Put(c.avatars, getAvatarLocation(prop.url),
                            [geometry |-> prop.geometry, style |-> prop.style,
                             condition |-> prop.condition, date |-> prop.date])]

\* card.prop.data = prop.data; card.prop.avatars[getAvatarLocation(prop.url)] = feature
OverwriteCard(c, prop) ==
  [c EXCEPT !.data = prop.data,
            !.avatars = Put(c.avatars, getAvatarLocation(prop.url), TransformableFeature(prop))]

\* Mutant: an unregistered card makes updateAvatar return instead of throw.
UpdateAvatarOutcomeNoThrow(card) == "ok"

\* if (!card) throw new Error('The card is not registered in cards: ' + prop.url)
UpdateAvatarOutcome(card) == IF card = {} THEN "error" ELSE "ok"

updateAvatar(obj, saveOk) ==
  IF ~Hydrated(ValidAvatarObject(obj)) THEN Thrown("updateAvatar", obj) ELSE
  LET prop == AvatarPropFromObject(obj)
      card == getCardFromUrl(cards, prop.url)
  IN  /\ IF card = {}
           THEN UNCHANGED <<cards, cardStore>>
           ELSE \E c \in card :
                  /\ cards' = [cards EXCEPT ![c.id] = OverwriteCard(c, prop)]
                  /\ cardStore' = IOUpdateOrCreateCardData(cardStore, OverwriteCard(c, prop), saveOk)
      /\ UNCHANGED <<avatars, windows, nextWin, wsAvatars, urlStore>>
      /\ last' = Done("updateAvatar", getIdFromUrl(prop.url), prop.url, obj,
                      UpdateAvatarOutcome(card), EmptyString, {}, {}, saveOk, {})

UpdateAvatarFrom(objs) ==
  /\ nOps < MaxOps
  /\ \E obj \in objs :
       \E saveOk \in (IF getCardFromUrl(cards, obj.url) # {} THEN BOOLEAN ELSE {TRUE}) :
         updateAvatar(obj, saveOk)
  /\ nOps' = nOps + 1
  /\ UNCHANGED <<retry, renderer, uiVars>>

UpdateAvatar == UpdateAvatarFrom(AvatarPropObjects)

-----------------------------------------------------------------------------
(* deleteCardWithRetry *)

RetryCount == 5

RetrySleepMs == 1000

\* No deleteCardWithRetry call is running.
NoRetry ==
  [pc |-> "idle", id |-> EmptyString, i |-> 0, attempts |-> 0, failed |-> 0,
   succeeded |-> 0, sleepLeft |-> 0, elapsed |-> 0, minGap |-> RetrySleepMs,
   outcome |-> "pending"]

Min(a, b) == IF a < b THEN a ELSE b

Max(a, b) == IF a > b THEN a ELSE b

\* Mutant: the loop runs while i <= 5.
LoopContinuesInclusive(i) == i <= RetryCount

\* for (let i = 0; i < 5; i++)
LoopContinues(i) == i < RetryCount

\* await deleteCard(id).catch(e => { doRetry = true }): doRetry after the call
DoRetry(outcome) == outcome = "error"

\* deleteCardWithRetry(id) is called, without await, by the navigation guard of an
\* avatar of the card; the loop is entered with i = 0.
RetryStart ==
  /\ retry.pc = "idle"
  /\ \E u \in DOMAIN avatars :
       retry' = [NoRetry EXCEPT !.pc = IF LoopContinues(0) THEN "attempt" ELSE "done",
                                !.id = getIdFromUrl(u),
                                !.outcome = IF LoopContinues(0) THEN "pending" ELSE "resolved"]
  /\ UNCHANGED <<registryVars, last, nOps, renderer, uiVars>>

\* One iteration up to the sleep: deleteCard(id) is awaited; no error breaks the loop.
\* CardIO.deleteCardData is called when the card is registered.
RetryAttempt ==
  /\ retry.pc = "attempt"
  /\ \E ok \in (IF retry.id \in DOMAIN cards THEN BOOLEAN ELSE {TRUE}) :
       LET outcome == DeleteCardOutcome(retry.id, ok)
           called  == retry.id \in DOMAIN cards
       IN  /\ deleteCard(retry.id, ok)
           /\ last' = Done("deleteCard", retry.id, EmptyString, NoObject, outcome,
                           EmptyString, {}, {}, ok, DestroyedByDeleteCard(retry.id))
           /\ retry' =
                [retry EXCEPT
                   !.attempts = IF called THEN @ + 1 ELSE @,
                   !.failed = IF outcome = "error" THEN @ + 1 ELSE @,
                   !.succeeded = IF outcome = "ok" THEN @ + 1 ELSE @,
                   !.minGap = IF called /\ retry.attempts > 0 THEN Min(@, retry.elapsed) ELSE @,
                   !.elapsed = IF called THEN 0 ELSE @,
                   !.sleepLeft = IF DoRetry(outcome) THEN RetrySleepMs ELSE 0,
                   !.pc = IF DoRetry(outcome) THEN "sleep" ELSE "done",
                   !.outcome = IF DoRetry(outcome) THEN "pending" ELSE "resolved"]
  /\ UNCHANGED <<nOps, renderer, uiVars>>

\* await sleep(1000) resolved: i++, and the loop test
RetryWake ==
  /\ retry.pc = "sleep" /\ retry.sleepLeft = 0
  /\ retry' = [retry EXCEPT
                 !.i = @ + 1,
                 !.pc = IF LoopContinues(retry.i + 1) THEN "attempt" ELSE "done",
                 !.outcome = IF LoopContinues(retry.i + 1) THEN "pending" ELSE "resolved"]
  /\ UNCHANGED <<registryVars, last, nOps, renderer, uiVars>>

\* Time passes while the retry sleeps.
RetryTick ==
  /\ retry.pc = "sleep" /\ retry.sleepLeft > 0
  /\ \E d \in TickSteps :
       retry' = [retry EXCEPT !.sleepLeft = Max(0, @ - d),
                              !.elapsed = Min(RetrySleepMs, @ + d)]
  /\ UNCHANGED <<registryVars, last, nOps, renderer, uiVars>>

-----------------------------------------------------------------------------
(* The renderer of one card window: resize-by-hand, move-by-hand, queueSaveCommand *)

SaveDelayMs == 1000

RenderOffsetWidth == 0

RenderOffsetHeight == 0

Rect(x, y, width, height) == [x |-> x, y |-> y, width |-> width, height |-> height]

\* The newBounds will-resize and will-move send.
Bounds == {Rect(0, 0, 3, 2), Rect(1, 1, 3, 2), Rect(0, 0, 4, 3)}

NoEvent == [kind |-> "none", newBounds |-> Rect(0, 0, 3, 2)]

\* card_renderer.ts: what render() draws. The view of a card window holds the
\* cardProp given to initCardRenderer, the parts of the DOM render() writes, the
\* document sent to the contents frame, the state of the editor, and the requests
\* invoked on the main process.

\* Registry operations, renders and changes of cardProp in one card window.
MaxRenderOps == 3

\* cardCssStyle, read from the computed style of #contents and #card when the window
\* loads, and the offsets render() reads from the layout.
CardCssStyle ==
  [padding |-> [left |-> 1, right |-> 1, top |-> 1, bottom |-> 1],
   border |-> [left |-> 1, right |-> 1, top |-> 1, bottom |-> 1]]

Layout ==
  [closeBtnOffsetWidth |-> 2, codeBtnOffsetLeft |-> 1, codeBtnOffsetWidth |-> 2,
   titleBarOffsetHeight |-> 3]

\* n + 'px'
Px(n) == <<n, "px">>

\* MESSAGE.newCard
NewCardMessage == <<"New card">>

Tags == {"<b>", "</b>"}

\* CardProp.getPlainText(html): the markup is stripped
getPlainText(html) == SelectSeq(html, LAMBDA tok : tok \notin Tags)

\* convertHexColorToRgba(hex, opacity)
convertHexColorToRgba(hex, opacity) == <<"rgba(", hex, opacity, ")">>

\* darkenHexColor(hex, rate)
darkenHexColor(hex) == <<"darken", hex>>

CardRenderOptions ==
  {"TitleBar", "ContentsData", "ContentsRect", "CardStyle", "EditorStyle", "EditorRect"}

\* The default of render(options)
DefaultOptions ==
  <<"TitleBar", "ContentsData", "ContentsRect", "CardStyle", "EditorStyle", "EditorRect">>

Unset == <<>>

\* index.html as loaded: render() has written nothing.
NoDom ==
  [closeBtnLeft |-> Unset, titleBarLeft |-> Unset, titleBarWidth |-> Unset,
   frame |-> Unset,
   contentsWidth |-> Unset, contentsHeight |-> Unset,
   cardBorder |-> Unset, titleVisibility |-> Unset, contentsBackground |-> Unset,
   titleColor |-> Unset,
   editorColor |-> Unset, editorZoom |-> Unset,
   editorSize |-> Unset]

\* The parts of the DOM each option is there to write.
PartsOf(opt) ==
  CASE opt = "TitleBar"     -> {"closeBtnLeft", "titleBarLeft", "titleBarWidth"}
    [] opt = "ContentsData" -> {"frame"}
    [] opt = "ContentsRect" -> {"contentsWidth", "contentsHeight"}
    [] opt = "CardStyle"    -> {"cardBorder", "titleVisibility", "contentsBackground",
                                "titleColor"}
    [] opt = "EditorStyle"  -> {"editorColor", "editorZoom"}
    [] opt = "EditorRect"   -> {"editorSize"}
    [] OTHER                -> {}

ViewProp(id, data, width, height, backgroundColor, opacity, status) ==
  [id |-> id, data |-> data, geometry |-> [width |-> width, height |-> height],
   style |-> [backgroundColor |-> backgroundColor, opacity |-> opacity,
              uiColor |-> darkenHexColor(backgroundColor), zoom |-> 1],
   status |-> status]

\* The card states a window's renderer is given.
ViewProps ==
  {ViewProp(<<"c1">>, <<>>, 9, 9, "#ffffff", 1, "Focused"),
   ViewProp(<<"c1">>, <<"<b>", "text", "</b>">>, 9, 9, "#ffffff", 0, "Blurred"),
   ViewProp(<<"c1">>, <<"text">>, 12, 10, "#ffff00", 1, "Blurred"),
   ViewProp(<<"c1">>, <<"text">>, 12, 9, "#ffff00", 0, "None")}

\* setWindowTitle(): ipcRenderer.invoke('set-title', cardProp.id, plain text of the data)
setWindowTitle(v) ==
  LET title == IF v.prop.data = <<>> THEN NewCardMessage ELSE v.prop.data
  IN  [v EXCEPT !.invoked = Append(@, [channel |-> "set-title", id |-> v.prop.id,
                                        title |-> getPlainText(title)])]

\* Mutant: the width of the title bar is taken from the left the close button had.
renderTitleBarStale(v) ==
  LET closeBtnLeft == v.prop.geometry.width - CardCssStyle.border.left
                        - CardCssStyle.border.right - Layout.closeBtnOffsetWidth
      titleBarLeft == Layout.codeBtnOffsetLeft + Layout.codeBtnOffsetWidth
      oldLeft      == IF v.dom.closeBtnLeft = Unset THEN closeBtnLeft
                      ELSE v.dom.closeBtnLeft[1]
  IN  setWindowTitle([v EXCEPT !.dom.closeBtnLeft = Px(closeBtnLeft),
                               !.dom.titleBarLeft = Px(titleBarLeft),
                               !.dom.titleBarWidth = Px(oldLeft - titleBarLeft)])

renderTitleBar(v) ==
  LET closeBtnLeft == v.prop.geometry.width - CardCssStyle.border.left
                        - CardCssStyle.border.right - Layout.closeBtnOffsetWidth
      titleBarLeft == Layout.codeBtnOffsetLeft + Layout.codeBtnOffsetWidth
      barwidth     == closeBtnLeft - titleBarLeft
  IN  setWindowTitle([v EXCEPT !.dom.closeBtnLeft = Px(closeBtnLeft),
                               !.dom.titleBarLeft = Px(titleBarLeft),
                               !.dom.titleBarWidth = Px(barwidth)])

\* webview.send('message', {command: 'overwrite-iframe', arg: html}): the contents
\* frame writes the document
renderContentsData(v) ==
  [v EXCEPT !.dom.frame = <<"<body>">> \o v.prop.data \o <<"</body>">>]

renderContentsRect(v) ==
  [v EXCEPT
     !.dom.contentsWidth =
        Px(v.prop.geometry.width - CardCssStyle.border.left - CardCssStyle.border.right
             - CardCssStyle.padding.left - CardCssStyle.padding.right),
     !.dom.contentsHeight =
        Px(v.prop.geometry.height - CardCssStyle.border.top - CardCssStyle.border.bottom
             - Layout.titleBarOffsetHeight
             - CardCssStyle.padding.top - CardCssStyle.padding.bottom)]

renderCardStyle(v) ==
  LET backgroundRgba == convertHexColorToRgba(v.prop.style.backgroundColor,
                                              v.prop.style.opacity)
      darkerRgba     == convertHexColorToRgba(darkenHexColor(v.prop.style.backgroundColor),
                                              v.prop.style.opacity)
  IN  [v EXCEPT
         !.dom.cardBorder = IF v.prop.status = "Focused" THEN "3px solid red"
                            ELSE IF v.prop.status = "Blurred" THEN "3px solid transparent"
                            ELSE @,
         !.dom.titleVisibility =
            IF v.prop.style.opacity = 0 /\ v.prop.status = "Blurred" THEN "hidden"
            ELSE "visible",
         !.dom.contentsBackground = <<"linear-gradient", backgroundRgba, darkerRgba>>,
         !.dom.titleColor = convertHexColorToRgba(v.prop.style.uiColor, 1)]

\* cardEditor.setColor(); cardEditor.setZoom()
renderEditorStyle(v) ==
  [v EXCEPT !.dom.editorColor = convertHexColorToRgba(v.prop.style.backgroundColor,
                                                      v.prop.style.opacity),
            !.dom.editorZoom = v.prop.style.zoom]

\* cardEditor.setSize()
renderEditorRect(v) ==
  [v EXCEPT !.dom.editorSize = <<v.prop.geometry.width, v.prop.geometry.height>>]

\* One turn of the loop of render(options)
renderOption(v, opt) ==
  CASE opt = "TitleBar"     -> renderTitleBar(v)
    [] opt = "ContentsData" -> renderContentsData(v)
    [] opt = "ContentsRect" -> renderContentsRect(v)
    [] opt = "CardStyle"    -> renderCardStyle(v)
    [] opt = "EditorStyle"  -> renderEditorStyle(v)
    [] opt = "EditorRect"   -> renderEditorRect(v)
    [] OTHER                -> v

RECURSIVE render(_, _)
render(v, options) ==
  IF options = <<>> THEN v
  ELSE render(renderOption(v, Head(options)), Tail(options))

\* The view when the window has loaded: no cardProp was rendered.
NoView ==
  [prop |-> ViewProp(EmptyString, <<>>, 9, 9, "#ffffff", 1, "None"),
   dom |-> NoDom, invoked |-> <<>>, options |-> <<>>, ops |-> 0]

\* The option lists render() is called with: the default, each option alone, the lists
\* of renderer.ts, and names render() does not know.
OptionLists ==
  {DefaultOptions} \cup {<<o>> : o \in CardRenderOptions}
    \cup {<<"TitleBar", "ContentsRect", "EditorRect">>, <<"Decoration">>,
          <<"Decoration", "EditorColor">>}

\* The renderer after the card is loaded: no timer was ever set.
NoRenderer ==
  [rect |-> Rect(0, 0, 3, 2),
   timers |-> EmptyMap,             \* pending setTimeout timers: handle -> ms left
   execSaveCommandTimeout |-> 0,    \* 0: undefined
   nextHandle |-> 1,
   events |-> 0,
   lastEvent |-> NoEvent,
   sinceEvent |-> SaveDelayMs,      \* ms since the last event, at most SaveDelayMs
   burst |-> 0,                     \* bursts begun so far
   writes |-> <<>>,                 \* the saveData calls made
   view |-> NoView,                 \* what card_renderer.ts holds and has drawn
   closing |-> FALSE,               \* close() awaits waitUnfinishedSaveTasks()
   closed |-> FALSE]                \* window.close() was called

\* Mutant: setTimeout without clearTimeout.
SetTimeoutOnly(timers, handle, fresh) == Put(timers, fresh, SaveDelayMs)

\* clearTimeout(execSaveCommandTimeout); execSaveCommandTimeout = setTimeout(execSaveCommand, 1000)
ClearAndSetTimeout(timers, handle, fresh) == Put(Del(timers, handle), fresh, SaveDelayMs)

queueSaveCommand(r) ==
  [r EXCEPT !.timers = ClearAndSetTimeout(r.timers, r.execSaveCommandTimeout, r.nextHandle),
            !.execSaveCommandTimeout = r.nextHandle,
            !.nextHandle = @ + 1]

\* What every event does to the record of events: an event that arrives less than
\* SaveDelayMs after the one before continues its burst.
Arrived(r, kind, newBounds) ==
  [r EXCEPT !.events = @ + 1,
            !.lastEvent = [kind |-> kind, newBounds |-> newBounds],
            !.burst = IF r.sinceEvent < SaveDelayMs THEN @ ELSE @ + 1,
            !.sinceEvent = 0]

DueTimers(r) == {h \in DOMAIN r.timers : r.timers[h] = 0}

\* A due timer runs before a later event is handled.
EventArrives(r) == r.events < MaxEvents /\ DueTimers(r) = {} /\ ~r.closed

\* ipcRenderer.on('resize-by-hand', ...)
ResizeByHand ==
  /\ EventArrives(renderer)
  /\ \E newBounds \in Bounds :
       renderer' =
         queueSaveCommand(
           [Arrived(renderer, "resize", newBounds) EXCEPT
              !.rect.width = newBounds.width + RenderOffsetWidth,
              !.rect.height = newBounds.height + RenderOffsetHeight])
  /\ UNCHANGED <<registryVars, last, nOps, retry, uiVars>>

\* ipcRenderer.on('move-by-hand', ...)
MoveByHand ==
  /\ EventArrives(renderer)
  /\ \E newBounds \in Bounds :
       renderer' =
         queueSaveCommand(
           [Arrived(renderer, "move", newBounds) EXCEPT
              !.rect.x = newBounds.x,
              !.rect.y = newBounds.y])
  /\ UNCHANGED <<registryVars, last, nOps, retry, uiVars>>

\* execSaveCommand, run by a due timer: saveData(cardProp)
execSaveCommand ==
  /\ \E h \in DueTimers(renderer) :
       renderer' =
         [renderer EXCEPT
            !.timers = Del(@, h),
            !.writes = Append(@, [rect |-> renderer.rect,
                                  burst |-> renderer.burst,
                                  after |-> renderer.sinceEvent,
                                  event |-> renderer.lastEvent])]
  /\ UNCHANGED <<registryVars, last, nOps, retry, uiVars>>

RECURSIVE MinLeft(_, _)
MinLeft(timers, hs) ==
  IF hs = {} THEN SaveDelayMs
  ELSE LET h == CHOOSE x \in hs : TRUE
       IN  Min(timers[h], MinLeft(timers, hs \ {h}))

\* Time passes, up to the moment the next timer is due.
RendererTick ==
  /\ DOMAIN renderer.timers # {}
  /\ DueTimers(renderer) = {}
  /\ \E d \in TickSteps :
       LET adv == Min(d, MinLeft(renderer.timers, DOMAIN renderer.timers))
       IN  renderer' =
             [renderer EXCEPT
                !.timers = [h \in DOMAIN @ |-> @[h] - adv],
                !.sinceEvent = Min(SaveDelayMs, @ + adv)]
  /\ UNCHANGED <<registryVars, last, nOps, retry, uiVars>>

\* window.close(): the renderer process goes away, and its pending timers with it.
WindowCloseOf(r) == [r EXCEPT !.timers = EmptyMap, !.closing = FALSE, !.closed = TRUE]

\* close(), called by the close button and by ipcRenderer.on('card-close'), up to
\* its await of waitUnfinishedSaveTasks()
close ==
  /\ ~renderer.closing /\ ~renderer.closed
  /\ renderer' = [renderer EXCEPT !.closing = TRUE]
  /\ UNCHANGED <<registryVars, last, nOps, retry, uiVars>>

\* waitUnfinishedSaveTasks() settles, some time after the saveData calls already
\* made have finished, and close() goes on to window.close().
WindowClose ==
  /\ renderer.closing
  /\ DueTimers(renderer) = {}
  /\ renderer' = WindowCloseOf(renderer)
  /\ UNCHANGED <<registryVars, last, nOps, retry, uiVars>>

\* A call of render(options) of card_renderer.ts
Render ==
  /\ renderer.view.ops < MaxRenderOps
  /\ \E options \in OptionLists :
       renderer' = [renderer EXCEPT
                      !.view = [render(renderer.view, options) EXCEPT
                                  !.options = options, !.ops = @ + 1]]
  /\ UNCHANGED <<registryVars, last, nOps, retry, uiVars>>

\* ipcRenderer.on('render-card'): cardProp = CardProp.fromObject(_prop);
\* initCardRenderer(cardProp, cardCssStyle, cardEditor); render()
RenderCard ==
  /\ renderer.view.ops < MaxRenderOps
  /\ \E prop \in ViewProps :
       renderer' = [renderer EXCEPT
                      !.view = [render([renderer.view EXCEPT !.prop = prop], DefaultOptions)
                                  EXCEPT !.options = DefaultOptions, !.ops = @ + 1]]
  /\ UNCHANGED <<registryVars, last, nOps, retry, uiVars>>

\* A handler of the renderer assigns to cardProp (its data, geometry, style or status)
\* before it renders.
ChangeCardProp ==
  /\ renderer.view.ops < MaxRenderOps
  /\ \E prop \in ViewProps \ {renderer.view.prop} :
       renderer' = [renderer EXCEPT
                      !.view = [@ EXCEPT !.prop = prop, !.options = <<>>, !.ops = @ + 1]]
  /\ UNCHANGED <<registryVars, last, nOps, retry, uiVars>>

-----------------------------------------------------------------------------
(* Launch: app.on('ready') *)

\* new CardProp(id): a card without content, placed once in the current workspace
DefaultFeature ==
  [geometry |-> [x |-> 0, y |-> 0, z |-> 0, width |-> 3, height |-> 2],
   style |-> [backgroundColor |-> "white", opacity |-> 1],
   condition |-> [locked |-> FALSE],
   date |-> "new"]

CardPropDefault(id) == CardProp(id, "", [loc \in {LocW1A} |-> DefaultFeature])

\* CardIO.getCardData(id) rejects on an I/O failure and on an unknown id
IOGetCardDataSucceeds(store, id, ok) == ok /\ id \in DOMAIN store

\* CardIO.getAvatarUrlList(workspaceId), with the catch that returns []
IOGetAvatarUrlList(list, ok) == IF ok THEN list ELSE <<>>

\* new AvatarProp(avatarUrl, getCardData(avatarUrl), getAvatarProp(avatarUrl)):
\* data and feature are undefined, and defaulted, when the card or the location is
\* not there.
AvatarPropAt(cs, url) ==
  LET found == getCardFromUrl(cs, url)
      loc   == getAvatarLocation(url)
  IN  IF found = {} THEN AvatarProp(url, "", DefaultFeature)
      ELSE LET prop == CHOOSE c \in found : TRUE
           IN  AvatarProp(url, prop.data,
                          IF loc \in DOMAIN prop.avatars THEN prop.avatars[loc]
                          ELSE DefaultFeature)

\* Mutant: the card ids of the placements, one per placement.
NotUnique(seq) == seq

\* [...new Set(cardIdArray)]: first occurrences, in order
RECURSIVE Unique(_)
Unique(seq) ==
  IF seq = <<>> THEN <<>>
  ELSE LET front == Unique(SubSeq(seq, 1, Len(seq) - 1))
           x     == seq[Len(seq)]
       IN  IF x \in Range(front) THEN front ELSE Append(front, x)

CountIn(seq, x) == Cardinality({i \in DOMAIN seq : seq[i] = x})

\* Mutant: the locations of the card are not enumerated.
KeysOfNone(avs) == <<>>

\* Object.keys(card.prop.avatars)
KeysOf(avs) == SelectSeq(LocOrder, LAMBDA loc : loc \in DOMAIN avs)

\* [...avs.keys()]: the keys in the order the avatars were registered
AvatarKeysOf(avs) ==
  LET urls == DOMAIN avs
      rank(u) == Cardinality({v \in urls : avs[v].win < avs[u].win}) + 1
  IN  [i \in 1..Cardinality(urls) |-> CHOOSE u \in urls : rank(u) = i]

\* Mutant: the keys are left in the order of registration.
backToFrontUnsorted(avs, keys) == keys

\* keys.sort(by prop.geometry.z): ascending z, equal z in the order of keys
backToFront(avs, keys) ==
  LET z(u) == avs[u].prop.geometry.z
      idx(u) == CHOOSE i \in DOMAIN keys : keys[i] = u
      before(v, u) == z(v) < z(u) \/ (z(v) = z(u) /\ idx(v) < idx(u))
      rank(u) == Cardinality({v \in Range(keys) : before(v, u)}) + 1
  IN  [i \in 1..Len(keys) |-> CHOOSE u \in Range(keys) : rank(u) = i]

\* ready has not run.
\* pending: the renders that had not settled when Promise.all(renderers) settled;
\* raised: the avatars in the order of their window.moveTop();
\* stack: the windows that are shown, from back to front, when every render has settled.
NoLaunch ==
  [pc |-> "start", listOk |-> TRUE, list |-> <<>>, loads |-> EmptyMap, failed |-> {},
   late |-> {}, made |-> <<>>, wins |-> {}, defaultId |-> EmptyString,
   saveOk |-> TRUE, addFail |-> {}, ioFail |-> {}, renderFail |-> {},
   pending |-> {}, raised |-> <<>>, stack |-> <<>>]

\* Promise.all(renderers) rejects with the first render that rejects: the other
\* renders may not have settled by then.
PendingRenders(urls, renderFail) ==
  IF renderFail = {} THEN {{}} ELSE SUBSET (Range(urls) \ renderFail)

\* The sequences that hold each element of set once.
Orders(set) ==
  {p \in [1..Cardinality(set) -> set] : \A i, j \in DOMAIN p : p[i] = p[j] => i = j}

\* for (const key of backToFront) avatars.get(key).window.moveTop(): each window is
\* put on top in turn. A window whose render fails is never shown; a window that is
\* shown (showInactive, in _renderCard) after the loop keeps its place or is put on
\* top, as the platform orders a window it shows.
StacksAfter(raised, renderFail, pending) ==
  UNION {{SelectSeq(raised, LAMBDA u : u \notin renderFail /\ u \notin onTop) \o top :
            top \in Orders(onTop)} : onTop \in SUBSET pending}

\* The rest of ready once the avatars are constructed: the renders, then the windows
\* are raised from back to front.
RenderAndRaise(l, avs, urls, renderFail) ==
  LET raised == backToFront(avs, AvatarKeysOf(avs))
  IN  \E pending \in PendingRenders(urls, renderFail) :
        \E stack \in StacksAfter(raised, renderFail, pending) :
          launch' = [l EXCEPT !.pending = pending, !.raised = raised, !.stack = stack]

\* avatarIdArray.forEach(avatarUrl => setAvatarEntry(new Avatar(...))), then the renders
\* cs: the cards registry when the avatars are constructed.
LaunchAvatars(cs, urls, renderFail) ==
  LET winOf(u) == nextWin + (CHOOSE i \in 1..Len(urls) : urls[i] = u) - 1
      made(u)  == [NewAvatar(AvatarPropAt(cs, u), winOf(u))
                     EXCEPT !.renderingCompleted = (u \notin renderFail)]
  IN  /\ avatars' = [u \in (DOMAIN avatars) \cup Range(urls) |->
                       IF u \in Range(urls) THEN made(u) ELSE avatars[u]]
      /\ windows' = [w \in (DOMAIN windows) \cup {winOf(u) : u \in Range(urls)} |->
                       IF w \in DOMAIN windows THEN windows[w]
                       ELSE urls[w - nextWin + 1]]
      /\ nextWin' = nextWin + Len(urls)

\* avatarIdArray.length === 0: a default card
ReadyDefault(listOk) ==
  \E generated \in FreshIds, saveOk \in BOOLEAN :
    LET prop == CardPropDefault(generated)
        locs == KeysOf(prop.avatars)
        urls == [i \in 1..Len(locs) |-> locs[i] \o prop.id]
    IN  \E addFail \in SUBSET Range(urls), renderFail \in SUBSET Range(urls) :
          /\ wsAvatars' = wsAvatars \o urls
          /\ urlStore' = AddAvatarUrls(urlStore, urls, addFail)
          /\ cards' = Put(cards, prop.id, prop)
          /\ cardStore' = IOUpdateOrCreateCardData(cardStore, prop, saveOk)
          /\ LaunchAvatars(cards', urls, renderFail)
          /\ RenderAndRaise([NoLaunch EXCEPT
                               !.pc = "ready", !.listOk = listOk, !.made = urls,
                               !.wins = (DOMAIN windows') \ DOMAIN windows,
                               !.defaultId = prop.id, !.saveOk = saveOk,
                               !.addFail = addFail, !.renderFail = renderFail],
                            avatars', urls, renderFail)

\* otherwise: the cards of the placements are loaded, each once.
\* Promise.all rejects with the first load that fails: the loads that have not
\* settled by then (late) register their cards after the avatars were constructed.
ReadyLoad(list) ==
  LET cardIdArray == [i \in 1..Len(list) |-> getIdFromUrl(list[i])]
      ids         == Unique(cardIdArray)
  IN  \E ioFail \in SUBSET Range(ids) :
        LET failed == {id \in Range(ids) : ~IOGetCardDataSucceeds(cardStore, id, id \notin ioFail)}
            loaded == Range(ids) \ failed
        IN  \E late \in (IF failed = {} THEN {{}} ELSE SUBSET loaded),
               renderFail \in SUBSET Range(list) :
              LET loadedCards(set) ==
                    [id \in (DOMAIN cards) \cup set |->
                       IF id \in set THEN CardPropFromObject(cardStore[id]) ELSE cards[id]]
              IN  /\ cards' = loadedCards(loaded)
                  /\ LaunchAvatars(loadedCards(loaded \ late), list, renderFail)
                  /\ RenderAndRaise([NoLaunch EXCEPT
                                       !.pc = "ready", !.list = list,
                                       !.loads = [id \in Range(ids) |-> CountIn(ids, id)],
                                       !.failed = failed, !.late = late, !.made = list,
                                       !.ioFail = ioFail, !.renderFail = renderFail,
                                       !.wins = (DOMAIN windows') \ DOMAIN windows],
                                    avatars', list, renderFail)
                  /\ UNCHANGED <<wsAvatars, urlStore, cardStore>>

Ready ==
  /\ launch.pc = "start"
  /\ \E listOk \in BOOLEAN :
       LET avatarIdArray == IOGetAvatarUrlList(urlStore, listOk)
       IN  IF Len(avatarIdArray) = 0 THEN ReadyDefault(listOk) ELSE ReadyLoad(avatarIdArray)
  /\ UNCHANGED <<last, nOps, retry, renderer, focusVars, pageVars>>

\* What persistence holds when the application is launched.
StoreOneCard ==
  [cardStore |-> [id \in {<<"c1">>} |->
                    CardPropToObject(CardProp(id, "text",
                      [loc \in {LocW1A, LocW1B} |-> IF loc = LocW1A THEN Feature1 ELSE Feature0]))],
   urlStore |-> <<LocW1A \o <<"c1">>, LocW1B \o <<"c1">>>>]

StoreTwoCards ==
  [cardStore |-> [id \in CardIds |->
                    CardPropToObject(CardProp(id, IF id = <<"c1">> THEN "text" ELSE "",
                      [loc \in {IF id = <<"c1">> THEN LocW1A ELSE LocW1B} |-> Feature0]))],
   urlStore |-> <<LocW1B \o <<"c2">>, LocW1A \o <<"c1">>>>]

\* The record of c1 was deleted, its placement was not.
StoreCardMissing ==
  [cardStore |-> [id \in {<<"c2">>} |->
                    CardPropToObject(CardProp(id, "", [loc \in {LocW1B} |-> Feature1]))],
   urlStore |-> <<LocW1A \o <<"c1">>, LocW1B \o <<"c2">>>>]

StoreEmpty == [cardStore |-> EmptyMap, urlStore |-> <<>>]

Stores == {StoreEmpty, StoreOneCard, StoreTwoCards, StoreCardMissing}

\* Two cards, three placements; the list is not in the order of z.
StoreThreePlacements ==
  [cardStore |-> [id \in CardIds |->
                    CardPropToObject(
                      IF id = <<"c1">>
                        THEN CardProp(id, "text",
                               [loc \in {LocW1A, LocW1B} |->
                                  IF loc = LocW1A THEN Feature1 ELSE Feature0])
                        ELSE CardProp(id, "", [loc \in {LocW1A} |-> Feature2]))],
   urlStore |-> <<LocW1A \o <<"c2">>, LocW1A \o <<"c1">>, LocW1B \o <<"c1">>>>]

LaunchStores == Stores \cup {StoreThreePlacements}

-----------------------------------------------------------------------------
(* Focus control: the focus gate, the once-flags, the focus and blur listeners *)

NoFlags ==
  [suppressFocusEventOnce |-> FALSE, suppressBlurEventOnce |-> FALSE,
   recaptureGlobalFocusEventAfterLocalFocusEvent |-> FALSE]

\* The flags of the Avatar that owns window w.
FlagsOf(w) == IF w \in DOMAIN flags THEN flags[w] ELSE NoFlags

\* new BrowserWindow(...): no title, the minimum size
NoWinState == [title |-> "", width |-> 0, height |-> 0]

WinStateOf(w) == IF w \in DOMAIN winState THEN winState[w] ELSE NoWinState

Titles == {"title"}

Sizes == {[width |-> 5, height |-> 4]}

NoRequest == [handler |-> "none", url |-> EmptyString, found |-> FALSE, ret |-> 0]

Request(handler, url, found, ret) ==
  [handler |-> handler, url |-> url, found |-> found, ret |-> ret]

InitFocus ==
  /\ gate = TRUE
  /\ flags = EmptyMap
  /\ focused = 0
  /\ events = <<>>
  /\ sent = <<>>
  /\ winState = EmptyMap
  /\ request = NoRequest
  /\ awaiting = {}
  /\ nFocus = 0

\* A focus or blur event of a window, and what caused it.
Ev(w, type, cause) == [win |-> w, type |-> type, cause |-> cause]

\* The focus of the windows as the operating system keeps it, with the events emitted.
FocusState(f, evs) == [focused |-> f, events |-> evs]

\* window.focus(): the window that had the focus is blurred, w is focused.
\* No event is emitted when w has the focus already.
WinFocus(fs, w, cause) ==
  IF w \notin DOMAIN windows \/ fs.focused = w THEN fs
  ELSE FocusState(w,
         fs.events
           \o (IF fs.focused # 0 THEN <<Ev(fs.focused, "blur", cause)>> ELSE <<>>)
           \o <<Ev(w, "focus", cause)>>)

\* window.blur(): w is blurred and the operating system focuses next, another card
\* window or none. No event is emitted when w does not have the focus.
WinBlur(fs, w, next, cause) ==
  IF fs.focused # w THEN fs
  ELSE FocusState(next,
         fs.events \o <<Ev(w, "blur", cause)>>
           \o (IF next # 0 THEN <<Ev(next, "focus", cause)>> ELSE <<>>))

\* The windows the operating system can focus when w loses the focus.
NextFocused(w) == ((DOMAIN windows) \ {w}) \cup {0}

\* avatars.get(url)
Registered(url) == url \in DOMAIN avatars

SetFlag(fl, w, name, value) == Put(fl, w, [FlagsOf(w) EXCEPT ![name] = value])

\* Mutant: the focus listener leaves suppressFocusEventOnce set.
KeepSuppressFocus(f) == f

\* this.suppressFocusEventOnce = false
ConsumeSuppressFocus(f) == [f EXCEPT !.suppressFocusEventOnce = FALSE]

\* Mutant: the focus listener does not re-enable the gate.
RecapturedGateKept(f, g) == g

\* if (this.recaptureGlobalFocusEventAfterLocalFocusEvent) setGlobalFocusEventListenerPermission(true)
RecapturedGate(f, g) ==
  IF f.recaptureGlobalFocusEventAfterLocalFocusEvent THEN TRUE ELSE g

\* Avatar._focusListener on flags f under gate g: the flags and the gate it leaves,
\* and whether it sends card-focused.
FocusListener(f, g) ==
  LET g1 == RecapturedGate(f, g)
      f1 == [f EXCEPT !.recaptureGlobalFocusEventAfterLocalFocusEvent = FALSE]
  IN  IF f1.suppressFocusEventOnce
        THEN [flags |-> ConsumeSuppressFocus(f1), gate |-> g1, send |-> FALSE]
      ELSE IF ~g1
        THEN [flags |-> f1, gate |-> g1, send |-> FALSE]
      ELSE [flags |-> f1, gate |-> g1, send |-> TRUE]

\* Avatar._blurListener
BlurListener(f, g) ==
  IF f.suppressBlurEventOnce
    THEN [flags |-> [f EXCEPT !.suppressBlurEventOnce = FALSE], gate |-> g, send |-> FALSE]
    ELSE [flags |-> f, gate |-> g, send |-> TRUE]

Channel(type) == IF type = "focus" THEN "card-focused" ELSE "card-blurred"

\* The next event is handled by the listener of its window; a destroyed window has
\* no listeners.
HandleEvent ==
  /\ events # <<>>
  /\ LET e == Head(events)
         r == IF e.type = "focus" THEN FocusListener(FlagsOf(e.win), gate)
              ELSE BlurListener(FlagsOf(e.win), gate)
     IN  /\ events' = Tail(events)
         /\ IF e.win \in DOMAIN windows
              THEN /\ flags' = Put(flags, e.win, r.flags)
                   /\ gate' = r.gate
                   /\ sent' = IF r.send
                                THEN Append(sent, [win |-> e.win, channel |-> Channel(e.type),
                                                   cause |-> e.cause])
                                ELSE sent
              ELSE UNCHANGED <<flags, gate, sent>>
         /\ awaiting' = IF e.type = "focus" THEN awaiting \ {e.win} ELSE awaiting
  /\ UNCHANGED <<registryVars, last, nOps, retry, renderer, launch, pageVars,
                 focused, winState, request, nFocus>>

\* The user clicks a card window.
UserFocus ==
  /\ nFocus < MaxFocusOps
  /\ \E w \in DOMAIN windows :
       /\ focused # w
       /\ LET fs == WinFocus(FocusState(focused, events), w, "user")
          IN  focused' = fs.focused /\ events' = fs.events
  /\ nFocus' = nFocus + 1
  /\ UNCHANGED <<registryVars, last, nOps, retry, renderer, launch, pageVars,
                 gate, flags, sent, winState, request, awaiting>>

\* The user clicks outside the card windows.
UserBlur ==
  /\ nFocus < MaxFocusOps
  /\ focused # 0
  /\ LET fs == WinBlur(FocusState(focused, events), focused, 0, "user")
     IN  focused' = fs.focused /\ events' = fs.events
  /\ nFocus' = nFocus + 1
  /\ UNCHANGED <<registryVars, last, nOps, retry, renderer, launch, pageVars,
                 gate, flags, sent, winState, request, awaiting>>

\* The renderers that send requests exist once the application is launched.
RequestArrives == nFocus < MaxFocusOps /\ launch.pc = "ready"

\* A renderer sends the url of its own avatar; its window may be closed by the time
\* the request is handled.
RequestUrls == Range(launch.made)

\* ipcMain.handle('blur-and-focus-with-suppress-events')
BlurAndFocusWithSuppressEvents ==
  /\ RequestArrives
  /\ \E url \in RequestUrls :
       /\ request' = Request("blur-and-focus-with-suppress-events", url, Registered(url), 0)
       /\ IF Registered(url)
            THEN LET w == avatars[url].win
                 IN  \E next \in NextFocused(w) :
                       LET fl1 == SetFlag(flags, w, "suppressBlurEventOnce", TRUE)
                           fs1 == WinBlur(FocusState(focused, events), w, next,
                                          "blur-and-focus-with-suppress-events")
                           fl2 == [fl1 EXCEPT
                                     ![w].suppressFocusEventOnce = TRUE,
                                     ![w].recaptureGlobalFocusEventAfterLocalFocusEvent = TRUE]
                           fs2 == WinFocus(fs1, w, "blur-and-focus-with-suppress-events")
                       IN  /\ gate' = FALSE
                           /\ flags' = fl2
                           /\ focused' = fs2.focused
                           /\ events' = fs2.events
                           /\ awaiting' = awaiting \cup {w}
            ELSE UNCHANGED <<gate, flags, focused, events, awaiting>>
  /\ nFocus' = nFocus + 1
  /\ UNCHANGED <<registryVars, last, nOps, retry, renderer, launch, pageVars, sent, winState>>

\* ipcMain.handle('blur-and-focus-with-suppress-focus-event')
BlurAndFocusWithSuppressFocusEvent ==
  /\ RequestArrives
  /\ \E url \in RequestUrls :
       /\ request' = Request("blur-and-focus-with-suppress-focus-event", url, Registered(url), 0)
       /\ IF Registered(url)
            THEN LET w == avatars[url].win
                 IN  \E next \in NextFocused(w) :
                       LET fs1 == WinBlur(FocusState(focused, events), w, next,
                                          "blur-and-focus-with-suppress-focus-event")
                           fs2 == WinFocus(fs1, w, "blur-and-focus-with-suppress-focus-event")
                       IN  /\ gate' = FALSE
                           /\ flags' = SetFlag(flags, w,
                                         "recaptureGlobalFocusEventAfterLocalFocusEvent", TRUE)
                           /\ focused' = fs2.focused
                           /\ events' = fs2.events
            ELSE UNCHANGED <<gate, flags, focused, events>>
  /\ nFocus' = nFocus + 1
  /\ UNCHANGED <<registryVars, last, nOps, retry, renderer, launch, pageVars, sent, winState, awaiting>>

\* ipcMain.handle('blur')
Blur ==
  /\ RequestArrives
  /\ \E url \in RequestUrls :
       /\ request' = Request("blur", url, Registered(url), 0)
       /\ IF Registered(url)
            THEN \E next \in NextFocused(avatars[url].win) :
                   LET fs == WinBlur(FocusState(focused, events), avatars[url].win, next, "blur")
                   IN  focused' = fs.focused /\ events' = fs.events
            ELSE UNCHANGED <<focused, events>>
  /\ nFocus' = nFocus + 1
  /\ UNCHANGED <<registryVars, last, nOps, retry, renderer, launch, pageVars,
                 gate, flags, sent, winState, awaiting>>

\* ipcMain.handle('focus')
Focus ==
  /\ RequestArrives
  /\ \E url \in RequestUrls :
       /\ request' = Request("focus", url, Registered(url), 0)
       /\ IF Registered(url)
            THEN LET fs == WinFocus(FocusState(focused, events), avatars[url].win, "focus")
                 IN  focused' = fs.focused /\ events' = fs.events
            ELSE UNCHANGED <<focused, events>>
  /\ nFocus' = nFocus + 1
  /\ UNCHANGED <<registryVars, last, nOps, retry, renderer, launch, pageVars,
                 gate, flags, sent, winState, awaiting>>

\* ipcMain.handle('set-title')
SetTitle ==
  /\ RequestArrives
  /\ \E url \in RequestUrls, title \in Titles :
       /\ request' = Request("set-title", url, Registered(url), 0)
       /\ winState' = IF Registered(url)
                        THEN Put(winState, avatars[url].win,
                                 [WinStateOf(avatars[url].win) EXCEPT !.title = title])
                        ELSE winState
  /\ nFocus' = nFocus + 1
  /\ UNCHANGED <<registryVars, last, nOps, retry, renderer, launch, pageVars,
                 gate, flags, focused, events, sent, awaiting>>

\* ipcMain.handle('set-window-size'): avatar?.window.setSize(width, height)
SetWindowSize ==
  /\ RequestArrives
  /\ \E url \in RequestUrls, size \in Sizes :
       /\ request' = Request("set-window-size", url, Registered(url), 0)
       /\ winState' = IF Registered(url)
                        THEN Put(winState, avatars[url].win,
                                 [WinStateOf(avatars[url].win) EXCEPT
                                    !.width = size.width, !.height = size.height])
                        ELSE winState
  /\ nFocus' = nFocus + 1
  /\ UNCHANGED <<registryVars, last, nOps, retry, renderer, launch, pageVars,
                 gate, flags, focused, events, sent, awaiting>>

\* ipcMain.handle('finish-render-card')
FinishRenderCard ==
  /\ RequestArrives
  /\ \E url \in RequestUrls :
       /\ request' = Request("finish-render-card", url, Registered(url), 0)
       /\ avatars' = IF Registered(url)
                       THEN [avatars EXCEPT ![url].renderingCompleted = TRUE]
                       ELSE avatars
  /\ nFocus' = nFocus + 1
  /\ UNCHANGED <<cards, windows, nextWin, wsAvatars, cardStore, urlStore,
                 last, nOps, retry, renderer, launch, pageVars,
                 gate, flags, focused, events, sent, winState, awaiting>>

\* [...avatars.keys()]: the keys in the order the avatars were registered
AvatarKeys == AvatarKeysOf(avatars)

\* keys.sort(by prop.geometry.z): ascending z, equal z in the order of keys
BackToFront(keys) == backToFront(avatars, keys)

\* for (const key of order) { avatars.get(key).suppressFocusEventOnce = true;
\*                            avatars.get(key).window.focus() }
RECURSIVE FocusEach(_, _, _, _)
FocusEach(order, fl, fs, cause) ==
  IF order = <<>> THEN [flags |-> fl, fs |-> fs]
  ELSE LET w == avatars[Head(order)].win
           f == IF w \in DOMAIN fl THEN fl[w] ELSE NoFlags
       IN  FocusEach(Tail(order),
                     Put(fl, w, [f EXCEPT !.suppressFocusEventOnce = TRUE]),
                     WinFocus(fs, w, cause), cause)

\* ipcMain.handle('bring-to-front')
BringToFront ==
  /\ RequestArrives
  /\ \E url \in RequestUrls, rearrange \in BOOLEAN :
       IF Registered(url)
         THEN LET sorted == BackToFront(AvatarKeys)
                  newZ   == avatars[sorted[Len(sorted)]].prop.geometry.z + 1
                  order  == Append(Without(sorted, url), url)
                  r      == FocusEach(order, flags, FocusState(focused, events), "bring-to-front")
              IN  /\ request' = Request("bring-to-front", url, TRUE, newZ)
                  /\ IF rearrange
                       THEN flags' = r.flags /\ focused' = r.fs.focused /\ events' = r.fs.events
                       ELSE UNCHANGED <<flags, focused, events>>
         ELSE /\ request' = Request("bring-to-front", url, FALSE, 0)
              /\ UNCHANGED <<flags, focused, events>>
  /\ nFocus' = nFocus + 1
  /\ UNCHANGED <<registryVars, last, nOps, retry, renderer, launch, pageVars, gate, sent, winState, awaiting>>

\* ipcMain.handle('send-to-back')
SendToBack ==
  /\ RequestArrives
  /\ \E url \in RequestUrls :
       IF Registered(url)
         THEN LET sorted == BackToFront(AvatarKeys)
                  newZ   == avatars[sorted[1]].prop.geometry.z - 1
                  order  == <<url>> \o Without(sorted, url)
                  r      == FocusEach(order, flags, FocusState(focused, events), "send-to-back")
              IN  /\ request' = Request("send-to-back", url, TRUE, newZ)
                  /\ flags' = r.flags /\ focused' = r.fs.focused /\ events' = r.fs.events
         ELSE /\ request' = Request("send-to-back", url, FALSE, 0)
              /\ UNCHANGED <<flags, focused, events>>
  /\ nFocus' = nFocus + 1
  /\ UNCHANGED <<registryVars, last, nOps, retry, renderer, launch, pageVars, gate, sent, winState, awaiting>>

\* A card window is closed (window.close() of its renderer): the window is destroyed,
\* its 'closed' listener runs, and the operating system moves the focus.
WindowClosed ==
  /\ nFocus < MaxFocusOps
  /\ \E w \in DOMAIN windows :
       /\ windows' = Del(windows, w)
       /\ avatars' = ClosedListener(avatars, [prop |-> [url |-> windows[w]], win |-> w])
       /\ IF focused = w
            THEN \E next \in NextFocused(w) :
                   /\ focused' = next
                   /\ events' = IF next # 0 THEN Append(events, Ev(next, "focus", "closed"))
                                ELSE events
            ELSE UNCHANGED <<focused, events>>
       /\ request' = Request("closed", windows[w], TRUE, 0)
       /\ awaiting' = awaiting \ {w}
  /\ nFocus' = nFocus + 1
  /\ UNCHANGED <<cards, nextWin, wsAvatars, cardStore, urlStore,
                 last, nOps, retry, renderer, launch, pageVars, gate, flags, sent, winState>>

\* The z the last bring-to-front request returned was stored through update-avatar.
ZStored ==
  /\ request.handler = "bring-to-front" /\ request.found
  /\ last.op = "updateAvatar" /\ last.outcome = "ok" /\ last.url = request.url
  /\ last.obj.geometry.z = request.ret

\* The renderer that was returned a z by bring-to-front stores it: update-avatar with
\* the prop of its avatar and the new z.
UpdateAvatarOfRequest ==
  /\ launch.pc = "ready" /\ nOps < MaxOps
  /\ request.handler = "bring-to-front" /\ request.found
  /\ Registered(request.url)
  /\ ~ZStored
  /\ LET p   == avatars[request.url].prop
         obj == [url |-> p.url, data |-> p.data,
                 geometry |-> [p.geometry EXCEPT !.z = request.ret],
                 style |-> p.style, condition |-> p.condition, date |-> p.date]
     IN  \E saveOk \in BOOLEAN : updateAvatar(obj, saveOk)
  /\ nOps' = nOps + 1
  /\ UNCHANGED <<retry, renderer, uiVars>>

-----------------------------------------------------------------------------
(* The web contents of a card window: the shell, the render handshake and the
   navigation guard *)

\* The directory of index.html as a file: url, in tokens.
ShellDir == <<"file://", "/", "app", "/">>

\* The query of url.format: the slashes of the avatar url are escaped.
Encode(u) == [i \in DOMAIN u |-> IF u[i] = "/" THEN "%2F" ELSE u[i]]

\* url.format({pathname: '.../index.html', protocol: 'file:', slashes: true,
\*             query: {avatarUrl: this.prop.url}})
IndexUrl(url) == ShellDir \o <<"index.html", "?", "avatarUrl=">> \o Encode(url)

\* this.indexUrl.replace(/\\/g, '/')
TopFrameURL(url) ==
  LET index == IndexUrl(url)
  IN  [i \in DOMAIN index |-> IF index[i] = "\\" THEN "/" ELSE index[i]]

\* topFrameURL.replace(/index.html\?.+$/, 'iframe/contents_frame.html$'): what the
\* regular expression of the content iframe ends with
IframePath(top) ==
  LET at == {i \in 1..(Len(top) - 2) : top[i] = "index.html" /\ top[i + 1] = "?"}
  IN  IF at = {} THEN top
      ELSE SubSeq(top, 1, (CHOOSE i \in at : \A j \in at : i <= j) - 1)
             \o <<"iframe", "/", "contents_frame.html">>

EndsWith(u, suffix) ==
  /\ Len(u) >= Len(suffix)
  /\ SubSeq(u, Len(u) - Len(suffix) + 1, Len(u)) = suffix

\* iframeRex.test(navUrl): the expression is anchored at the end only
IsValid(top, navUrl) == EndsWith(navUrl, IframePath(top))

HttpSchemes == {"http://", "https://"}

\* The tokens that hold a slash, and what each holds before its first slash.
SlashTokens == {"/", "file://", "http://", "https://"}

BeforeSlash(tok) ==
  IF tok = "file://" THEN <<"file:">>
  ELSE IF tok = "http://" THEN <<"http:">>
  ELSE IF tok = "https://" THEN <<"https:">>
  ELSE <<>>

\* The first token from i on that holds a slash; Len(u) + 1 when there is none.
FirstSlash(u, i) ==
  LET at == {j \in i..Len(u) : u[j] \in SlashTokens}
  IN  IF at = {} THEN Len(u) + 1 ELSE CHOOSE j \in at : \A k \in at : j <= k

\* ([^/]+?): the text from token i up to the first slash
DomainFrom(u, i) ==
  LET j == FirstSlash(u, i)
  IN  SubSeq(u, i, j - 1) \o (IF j <= Len(u) THEN BeforeSlash(u[j]) ELSE <<>>)

\* Where /https?:\/\/([^/]+?)\// matches in u: the expression is not anchored.
MatchesWithSlash(u) ==
  {i \in DOMAIN u : /\ u[i] \in HttpSchemes
                    /\ DomainFrom(u, i + 1) # <<>>
                    /\ FirstSlash(u, i + 1) <= Len(u)}

\* Where /https?:\/\/([^/]+?)$/ matches in u.
MatchesAtEnd(u) ==
  {i \in DOMAIN u : /\ u[i] \in HttpSchemes
                    /\ i < Len(u)
                    /\ FirstSlash(u, i + 1) = Len(u) + 1}

\* domainMatch: no match, or the domain of the leftmost match
DomainMatch(navUrl) ==
  LET first(s) == CHOOSE i \in s : \A j \in s : i <= j
  IN  IF MatchesWithSlash(navUrl) # {}
        THEN {DomainFrom(navUrl, first(MatchesWithSlash(navUrl)) + 1)}
      ELSE IF MatchesAtEnd(navUrl) # {}
        THEN {DomainFrom(navUrl, first(MatchesAtEnd(navUrl)) + 1)}
      ELSE {}

\* Mutant: no domain is on the allow-list.
IncludesNone(list, domain) == FALSE

\* getSettings().persistent.navigationAllowedURLs.includes(domain)
Includes(list, domain) == domain \in list

\* The buttons of the allow / deny prompt.
DialogButtons == {"Default", "Cancel"}

\* What checkNavigation did: the branch it took, whether it removed itself from
\* did-start-navigation, set renderingCompleted, showed a dialog, put a domain on the
\* allow-list, reloaded the window, called deleteCardWithRetry, made a new Avatar.
Guarded(branch, off, completed, dialog, put, reload, delete, replace) ==
  [branch |-> branch, off |-> off, completed |-> completed, dialog |-> dialog,
   put |-> put, reload |-> reload, delete |-> delete, replace |-> replace]

NoGuard == Guarded("none", FALSE, FALSE, "none", {}, FALSE, FALSE, FALSE)

\* checkNavigation(_event, navUrl) of the avatar whose shell is top, with the
\* allow-list and the button the user presses if prompted.
checkNavigation(top, navUrl, list, res) ==
  IF navUrl = top
    THEN Guarded("top", TRUE, FALSE, "none", {}, FALSE, FALSE, FALSE)
  ELSE IF navUrl = <<"about:blank">>
    THEN Guarded("skip", FALSE, FALSE, "none", {}, FALSE, FALSE, FALSE)
  ELSE IF IsValid(top, navUrl)
    THEN Guarded("valid", TRUE, FALSE, "none", {}, FALSE, FALSE, TRUE)
  ELSE IF DomainMatch(navUrl) = {}
    THEN Guarded("local", TRUE, TRUE, "alert", {}, FALSE, TRUE, FALSE)
  ELSE LET domain == CHOOSE d \in DomainMatch(navUrl) : TRUE
       IN  IF Includes(list, domain)
             THEN Guarded("allowed", TRUE, TRUE, "none", {}, FALSE, FALSE, FALSE)
           ELSE IF res = "Default"
             THEN Guarded("allow", TRUE, TRUE, "prompt", {domain}, TRUE, FALSE, FALSE)
           ELSE IF res = "Cancel"
             THEN Guarded("deny", TRUE, TRUE, "prompt", {}, FALSE, TRUE, FALSE)
           ELSE Guarded("none", TRUE, TRUE, "prompt", {}, FALSE, FALSE, FALSE)

\* will-navigate: event.preventDefault() unless navUrl is the shell
WillNavigatePrevents(top, navUrl) == navUrl # top

\* The url of the content iframe.
IframeUrl == ShellDir \o <<"iframe", "/", "contents_frame.html">>

\* The urls the content of the window of avatar url navigates to.
NavUrls(url) ==
  {TopFrameURL(url),
   IframeUrl,
   <<"about:blank">>,
   <<"javascript:", "alert(1)">>,
   <<"file://", "/", "etc", "/", "passwd">>,
   <<"https://", "a.com", "/">>,
   <<"http://", "b.com">>,
   <<"file://", "/", "x", "?", "u=", "https://", "a.com", "/">>,
   <<"https://", "e.com", "/", "?", "p=">> \o IframeUrl}

Frames == {"top", "iframe"}

\* An Avatar object with its BrowserWindow, before render() is called.
NoPage(url) ==
  [url |-> url, load |-> "none", everLoaded |-> FALSE, invoked |-> FALSE,
   listeners |-> 0, render |-> "idle", renderingCompleted |-> FALSE,
   acks |-> 0, renderCards |-> 0, rendered |-> 0, replaces |-> 0]

NoNav ==
  [n |-> 0, win |-> 0, frame |-> "none", url |-> EmptyString, listeners |-> 0,
   did |-> NoGuard, res |-> "none"]

\* No Avatar is rendering, the allow-list is empty.
InitPage ==
  /\ page = EmptyMap
  /\ handlers = EmptyMap
  /\ allowed = {}
  /\ nav = NoNav

\* render() of the Avatar of window w: _loadHTML registers the finish-load handler
\* with ipcMain.handleOnce, which throws when the channel has a handler, and loads the
\* shell.
StartRender(pg, hs, w) ==
  IF pg[w].url \in DOMAIN hs
    THEN [page |-> [pg EXCEPT ![w].render = "rejected"], handlers |-> hs]
    ELSE [page |-> [pg EXCEPT ![w].render = "loading", ![w].load = "loading"],
          handlers |-> Put(hs, pg[w].url, [kind |-> "once", win |-> w])]

\* The card window and its web contents exist.
Alive(w) == w \in DOMAIN windows /\ w \in DOMAIN page

\* The registry's view of the Avatar that owns window w, with renderingCompleted set.
MarkCompleted(avs, w) ==
  [u \in DOMAIN avs |->
     IF avs[u].win = w THEN [avs[u] EXCEPT !.renderingCompleted = TRUE] ELSE avs[u]]

\* webContents 'did-finish-load': the shell is loaded, checkNavigation is registered.
DidFinishLoad ==
  /\ \E w \in DOMAIN page :
       /\ Alive(w) /\ page[w].load = "loading"
       /\ page' = [page EXCEPT ![w].load = "loaded", ![w].everLoaded = TRUE,
                               ![w].listeners = @ + 1]
  /\ UNCHANGED <<registryVars, last, nOps, retry, renderer, launch, focusVars,
                 handlers, allowed, nav>>

\* webContents 'did-fail-load', of the shell or of a frame in it: _loadHTML rejects,
\* which has no effect once it resolved. A shell that fails to load runs no script.
DidFailLoad ==
  /\ \E w \in DOMAIN page, frame \in Frames :
       /\ Alive(w)
       /\ IF frame = "top" THEN page[w].load = "loading" /\ ~page[w].invoked
          ELSE page[w].load \in {"loading", "loaded"} /\ page[w].render = "loading"
       /\ page' = [page EXCEPT
                     ![w].load = IF frame = "top" THEN "failed" ELSE @,
                     ![w].render = IF @ = "loading" THEN "rejected" ELSE @]
  /\ UNCHANGED <<registryVars, last, nOps, retry, renderer, launch, focusVars,
                 handlers, allowed, nav>>

\* The shell's script invokes finish-load-<url>. The first invocation runs
\* finishLoadListener: the permanent handler replaces it, _loadHTML resolves and
\* _renderCard sends render-card. Later invocations run _finishReloadListener.
FinishLoad ==
  /\ \E w \in DOMAIN page :
       /\ Alive(w) /\ page[w].load \in {"loading", "loaded"} /\ ~page[w].invoked
       /\ page[w].url \in DOMAIN handlers
       /\ LET h    == handlers[page[w].url]
              o    == h.win
              pg1  == [page EXCEPT ![w].invoked = TRUE]
              send == o \in DOMAIN windows
          IN  IF h.kind = "once"
                THEN /\ handlers' = [handlers EXCEPT ![page[w].url].kind = "reload"]
                     /\ page' = [pg1 EXCEPT
                                   ![o].acks = @ + 1,
                                   ![o].render = IF @ # "loading" THEN @
                                                 ELSE IF send THEN "rendering"
                                                 ELSE "rejected",
                                   ![o].renderCards =
                                      IF pg1[o].render = "loading" /\ send THEN @ + 1 ELSE @]
                ELSE /\ handlers' = handlers
                     /\ page' = [pg1 EXCEPT
                                   ![o].acks = @ + 1,
                                   ![o].renderCards = IF send THEN @ + 1 ELSE @]
  /\ UNCHANGED <<registryVars, last, nOps, retry, renderer, launch, focusVars,
                 allowed, nav>>

\* The renderer has rendered a render-card message and sends finish-render-card:
\* avatars.get(url).renderingCompleted = true
FinishRenderCardOfPage ==
  /\ \E w \in DOMAIN page :
       /\ Alive(w) /\ page[w].rendered < page[w].renderCards
       /\ LET url == page[w].url
              pg1 == [page EXCEPT ![w].rendered = @ + 1]
          IN  IF Registered(url)
                THEN /\ avatars' = [avatars EXCEPT ![url].renderingCompleted = TRUE]
                     /\ page' = IF avatars[url].win \in DOMAIN pg1
                                  THEN [pg1 EXCEPT ![avatars[url].win].renderingCompleted = TRUE]
                                  ELSE pg1
                ELSE /\ avatars' = avatars
                     /\ page' = pg1
  /\ UNCHANGED <<cards, windows, nextWin, wsAvatars, cardStore, urlStore,
                 last, nOps, retry, renderer, launch, focusVars, handlers, allowed, nav>>

\* Mutant: the timer resolves without looking at the flag.
PollResolvesAlways(pg) == TRUE

\* if (this.renderingCompleted) { clearInterval(checkTimer); resolve() }
PollResolves(pg) == pg.renderingCompleted

\* A tick of checkTimer, every 200 ms, that resolves _renderCard and render(). The
\* render() of a replacement Avatar then destroys the window it replaces and
\* registers the replacement.
PollRender ==
  /\ \E w \in DOMAIN page :
       /\ page[w].render = "rendering"
       /\ PollResolves(page[w])
       /\ page' = [page EXCEPT ![w].render = "resolved"]
       /\ IF page[w].replaces # 0
            THEN /\ windows' = Del(windows, page[w].replaces)
                 /\ avatars' = Put(avatars, page[w].url,
                                   [NewAvatar(AvatarPropAt(cards, page[w].url), w)
                                      EXCEPT !.renderingCompleted = TRUE])
            ELSE UNCHANGED <<windows, avatars>>
  /\ UNCHANGED <<cards, nextWin, wsAvatars, cardStore, urlStore,
                 last, nOps, retry, renderer, launch, focusVars, handlers, allowed, nav>>

\* deleteCardWithRetry(id), not awaited: the loop is entered.
RetryCall(r, id) ==
  IF r.pc # "idle" THEN r
  ELSE [NoRetry EXCEPT !.pc = IF LoopContinues(0) THEN "attempt" ELSE "done",
                       !.id = id,
                       !.outcome = IF LoopContinues(0) THEN "pending" ELSE "resolved"]

\* The content of a card window starts a navigation of its top frame or of a frame
\* in it. will-navigate sees the navigations of the top frame; did-start-navigation
\* runs checkNavigation when it is registered.
Navigate ==
  /\ nav.n < MaxNavOps
  /\ \E w \in DOMAIN page, frame \in Frames, res \in DialogButtons :
       \E navUrl \in NavUrls(page[w].url) :
         /\ Alive(w) /\ page[w].everLoaded /\ page[w].load \in {"loading", "loaded"}
         /\ LET url       == page[w].url
                top       == TopFrameURL(url)
                prevented == frame = "top" /\ WillNavigatePrevents(top, navUrl)
                g         == IF prevented THEN [NoGuard EXCEPT !.branch = "prevented"]
                             ELSE IF page[w].listeners = 0
                               THEN [NoGuard EXCEPT !.branch = "unchecked"]
                             ELSE checkNavigation(top, navUrl, allowed, res)
                reloads   == g.reload \/ (frame = "top" /\ ~prevented)
                pg1       == [page EXCEPT
                                ![w].listeners = IF g.off THEN @ - 1 ELSE @,
                                ![w].renderingCompleted = @ \/ g.completed,
                                ![w].load = IF reloads THEN "loading" ELSE @,
                                ![w].invoked = IF reloads THEN FALSE ELSE @]
                made      == StartRender(Put(pg1, nextWin,
                                             [NoPage(url) EXCEPT !.replaces = w]),
                                         handlers, nextWin)
            IN  /\ IF g.replace
                     THEN /\ page' = made.page
                          /\ handlers' = made.handlers
                          /\ windows' = Put(windows, nextWin, url)
                          /\ nextWin' = nextWin + 1
                     ELSE /\ page' = pg1
                          /\ UNCHANGED <<handlers, windows, nextWin>>
                /\ allowed' = allowed \cup g.put
                /\ retry' = IF g.delete THEN RetryCall(retry, getIdFromUrl(url)) ELSE retry
                /\ avatars' = IF g.completed THEN MarkCompleted(avatars, w) ELSE avatars
                /\ nav' = [n |-> nav.n + 1, win |-> w, frame |-> frame, url |-> navUrl,
                           listeners |-> page[w].listeners, did |-> g,
                           res |-> IF g.dialog = "prompt" THEN res ELSE "none"]
  /\ UNCHANGED <<cards, wsAvatars, cardStore, urlStore, last, nOps, renderer, launch,
                 focusVars>>

-----------------------------------------------------------------------------
(* The initial state and the specifications *)


Init ==
  /\ cards = EmptyMap
  /\ avatars = EmptyMap
  /\ windows = EmptyMap
  /\ nextWin = 1
  /\ wsAvatars = <<>>
  /\ cardStore = EmptyMap
  /\ urlStore = <<>>
  /\ last = Done("none", EmptyString, EmptyString, NoObject, "ok", EmptyString, {}, {}, TRUE, {})
  /\ nOps = 0
  /\ retry = NoRetry
  /\ renderer = NoRenderer
  /\ launch = NoLaunch
  /\ InitFocus
  /\ InitPage

Next ==
  \/ CreateCard
  \/ DeleteCard
  \/ DeleteAvatar
  \/ UpdateAvatar

Spec == Init /\ [][Next]_vars

\* One deleteCardWithRetry call, beside createCard requests.
RetryCreateCard == nOps < MaxRetryOps /\ CreateCard

NextRetry ==
  \/ RetryCreateCard
  \/ RetryStart
  \/ RetryAttempt
  \/ RetryWake
  \/ RetryTick

SpecRetry == Init /\ [][NextRetry]_vars

\* One card window's renderer under a stream of resize and move events.
NextDebounce ==
  \/ ResizeByHand
  \/ MoveByHand
  \/ execSaveCommand
  \/ RendererTick

SpecDebounce == Init /\ [][NextDebounce]_vars

\* The renderer of one card window until the window is closed.
NextClose ==
  \/ ResizeByHand
  \/ MoveByHand
  \/ execSaveCommand
  \/ RendererTick
  \/ close
  \/ WindowClose

SpecClose == Init /\ [][NextClose]_vars

\* The registry given well-formed and malformed payloads.
CreateCardAny == CreateCardFrom(CardPropObjects \cup MalformedCardObjects)

UpdateAvatarAny == UpdateAvatarFrom(AvatarPropObjects \cup MalformedAvatarObjects)

NextPayloads ==
  \/ CreateCardAny
  \/ UpdateAvatarAny
  \/ DeleteAvatar

SpecPayloads == Init /\ [][NextPayloads]_vars

\* One card window's renderer drawing the card it is given.
NextRender ==
  \/ Render
  \/ RenderCard
  \/ ChangeCardProp

SpecRender == Init /\ [][NextRender]_vars

\* The application from its launch: the windows, their focus and the requests of
\* their renderers.
InitLaunchFrom(stores) ==
  /\ \E store \in stores :
       /\ cardStore = store.cardStore
       /\ urlStore = store.urlStore
       /\ wsAvatars = store.urlStore
  /\ cards = EmptyMap
  /\ avatars = EmptyMap
  /\ windows = EmptyMap
  /\ nextWin = 1
  /\ last = Done("none", EmptyString, EmptyString, NoObject, "ok", EmptyString, {}, {}, TRUE, {})
  /\ nOps = 0
  /\ retry = NoRetry
  /\ renderer = NoRenderer
  /\ launch = NoLaunch
  /\ InitFocus
  /\ InitPage

InitLaunch == InitLaunchFrom(Stores)

\* A launch in which no persistence operation and no render fails.
ReadyNoFailure ==
  /\ Ready
  /\ launch'.listOk /\ launch'.saveOk
  /\ launch'.ioFail = {} /\ launch'.late = {}
  /\ launch'.addFail = {} /\ launch'.renderFail = {}

NextWindows ==
  \/ ReadyNoFailure
  \/ HandleEvent
  \/ UserFocus
  \/ UserBlur
  \/ BlurAndFocusWithSuppressEvents
  \/ BlurAndFocusWithSuppressFocusEvent
  \/ Blur
  \/ Focus
  \/ SetTitle
  \/ SetWindowSize
  \/ FinishRenderCard
  \/ BringToFront
  \/ SendToBack
  \/ WindowClosed

SpecWindows == InitLaunch /\ [][NextWindows]_vars

\* The z-order requests of the renderers, each returned z stored before the next.
NextFront ==
  \/ ReadyNoFailure
  \/ HandleEvent
  \/ BringToFront
  \/ UpdateAvatarOfRequest

SpecFront == InitLaunch /\ [][NextFront]_vars

\* The launch, whatever fails in it, and the registry operations after it.
LaunchDeleteAvatar == launch.pc = "ready" /\ nOps < MaxLaunchOps /\ DeleteAvatar

LaunchUpdateAvatar == launch.pc = "ready" /\ nOps < MaxLaunchOps /\ UpdateAvatar

NextLaunch ==
  \/ Ready
  \/ LaunchDeleteAvatar
  \/ LaunchUpdateAvatar

SpecLaunch == InitLaunchFrom(LaunchStores) /\ [][NextLaunch]_vars

\* A launch in which every window renders.
ReadyRendered == Ready /\ launch'.renderFail = {}

LaunchCreateCard == launch.pc = "ready" /\ nOps < MaxLaunchOps /\ CreateCard

LaunchDeleteCard == launch.pc = "ready" /\ nOps < MaxLaunchOps /\ DeleteCard

NextRegistry ==
  \/ ReadyRendered
  \/ LaunchCreateCard
  \/ LaunchDeleteCard
  \/ LaunchDeleteAvatar
  \/ LaunchUpdateAvatar

\* The registry from the launch on: the cards it loads or creates, then the requests.
SpecRegistry ==
  InitLaunchFrom({StoreEmpty, StoreOneCard, StoreCardMissing}) /\ [][NextRegistry]_vars

\* One card, placed once in the current workspace.
StoreOnePlacement ==
  [cardStore |-> [id \in {<<"c1">>} |->
                    CardPropToObject(CardProp(id, "text", [loc \in {LocW1A} |-> Feature1]))],
   urlStore |-> <<LocW1A \o <<"c1">>>>]

\* The card window from the renders of the launch on: app.on('ready') has loaded
\* the card of the placement, made its avatar and called its render().
InitRendering ==
  LET store == StoreOnePlacement
      list  == store.urlStore
      cs    == [id \in DOMAIN store.cardStore |-> CardPropFromObject(store.cardStore[id])]
      pg0   == [w \in 1..Len(list) |-> NoPage(list[w])]
      r2    == StartRender(pg0, EmptyMap, 1)
  IN  /\ cardStore = store.cardStore
      /\ urlStore = list
      /\ wsAvatars = list
      /\ cards = cs
      /\ avatars = [u \in Range(list) |->
                      NewAvatar(AvatarPropAt(cs, u), CHOOSE w \in 1..Len(list) : list[w] = u)]
      /\ windows = [w \in 1..Len(list) |-> list[w]]
      /\ nextWin = Len(list) + 1
      /\ last = Done("none", EmptyString, EmptyString, NoObject, "ok", EmptyString, {}, {}, TRUE, {})
      /\ nOps = 0
      /\ retry = NoRetry
      /\ renderer = NoRenderer
      /\ launch = [NoLaunch EXCEPT !.pc = "rendering", !.list = list, !.made = list,
                                   !.wins = 1..Len(list)]
      /\ InitFocus
      /\ page = r2.page
      /\ handlers = r2.handlers
      /\ allowed \in {{}, {<<"a.com">>}}
      /\ nav = NoNav

NextPage ==
  \/ DidFinishLoad
  \/ DidFailLoad
  \/ FinishLoad
  \/ FinishRenderCardOfPage
  \/ PollRender
  \/ Navigate
  \/ WindowClosed

SpecPage == InitRendering /\ [][NextPage]_vars

\* The event loop runs every settled promise and every due timer, and time passes.
FairSpecRetry ==
  SpecRetry /\ WF_vars(RetryAttempt) /\ WF_vars(RetryWake) /\ WF_vars(RetryTick)

-----------------------------------------------------------------------------
(* Properties of the registry operations *)

\* The step is the operation op.
Step(op) == nOps' = nOps + 1 /\ last'.op = op

UrlsOfCard(us, id) == {u \in us : getIdFromUrl(u) = id}

\* C1: after deleteCard(id) completed successfully for a registered card, no avatar
\* whose url decomposes to id is registered, no window of such an avatar is left,
\* id is not in cards and no record of id is persisted.
C1_DeleteCardRemovesAvatarsCardAndRecord ==
  (last.op = "deleteCard" /\ last.outcome = "ok") =>
    /\ UrlsOfCard(DOMAIN avatars, last.id) = {}
    /\ \A w \in DOMAIN windows : getIdFromUrl(windows[w]) # last.id
    /\ last.id \notin DOMAIN cards
    /\ last.id \notin DOMAIN cardStore

\* C2: deleteAvatar(url) keeps the parent card registered and its record persisted,
\* and every other avatar of the card keeps its registry entry, its live window, its
\* place in the placement list (in memory and persisted) and its entry in the
\* parent CardProp's avatars mapping.
C2_DeleteAvatarKeepsCardAndSiblings ==
  [][Step("deleteAvatar") =>
      LET url == last'.url
          id  == getIdFromUrl(url)
      IN  /\ id \in DOMAIN cards => id \in DOMAIN cards'
          /\ id \in DOMAIN cardStore => id \in DOMAIN cardStore'
          /\ \A u \in UrlsOfCard(DOMAIN avatars, id) \ {url} :
               /\ u \in DOMAIN avatars' /\ avatars'[u] = avatars[u]
               /\ avatars[u].win \in DOMAIN windows => avatars[u].win \in DOMAIN windows'
          /\ \A u \in UrlsOfCard(Urls, id) \ {url} :
               /\ \A i \in DOMAIN wsAvatars : wsAvatars[i] = u =>
                    \E j \in DOMAIN wsAvatars' : wsAvatars'[j] = u
               /\ u \in Range(urlStore) => u \in Range(urlStore')
          /\ id \in DOMAIN cards =>
               \A loc \in (DOMAIN cards[id].avatars) \ {getAvatarLocation(url)} :
                 /\ loc \in DOMAIN cards'[id].avatars
                 /\ cards'[id].avatars[loc] = cards[id].avatars[loc]
  ]_vars

\* Witness of C2: an avatar was deleted and a sibling avatar of the same card is still
\* registered, alive, placed and recorded in the parent card.
C2_Witness ==
  /\ last.op = "deleteAvatar" /\ last.outcome = "ok" /\ last.wins # {}
  /\ \E u \in UrlsOfCard(DOMAIN avatars, last.id) :
       /\ u # last.url
       /\ avatars[u].win \in DOMAIN windows
       /\ u \in Range(wsAvatars)
       /\ last.id \in DOMAIN cards
       /\ getAvatarLocation(u) \in DOMAIN cards[last.id].avatars

\* What deleteAvatar(url) leaves in memory and in the persisted placement list.
DeleteAvatarRemoved ==
  /\ last.url \notin DOMAIN avatars
  /\ last.wins \cap DOMAIN windows = {}
  /\ last.url \notin Range(wsAvatars)
  /\ last.url \notin Range(urlStore)
  /\ last.id \in DOMAIN cards =>
       getAvatarLocation(last.url) \notin DOMAIN cards[last.id].avatars

CardIsPersisted(id) ==
  id \in DOMAIN cardStore /\ cardStore[id] = CardPropToObject(cards[id])

\* C3 as stated: after deleteAvatar(url) completed for a registered avatar, url is
\* gone from the registry, its window is destroyed, url is gone from the placement
\* list in memory and persisted, its location is gone from the parent CardProp and
\* the persisted record of the parent is that CardProp.
C3_DeleteAvatarRemovesAndPersists ==
  (last.op = "deleteAvatar" /\ last.outcome = "ok" /\ last.wins # {}) =>
    /\ DeleteAvatarRemoved
    /\ last.id \in DOMAIN cards => CardIsPersisted(last.id)

\* C3 amended: the same, the persisted record being the parent CardProp when the
\* write of saveCard succeeded.
C3_DeleteAvatarRemovesAndPersistsIfWritten ==
  (last.op = "deleteAvatar" /\ last.outcome = "ok" /\ last.wins # {}) =>
    /\ DeleteAvatarRemoved
    /\ (last.id \in DOMAIN cards /\ last.ioOk) => CardIsPersisted(last.id)

\* Witness of C3: a registered avatar of a registered card was deleted and the card
\* was written without it.
C3_Witness ==
  /\ last.op = "deleteAvatar" /\ last.outcome = "ok" /\ last.wins # {} /\ last.ioOk
  /\ last.id \in DOMAIN cards
  /\ CardIsPersisted(last.id)
  /\ getAvatarLocation(last.url) \notin DOMAIN cardStore[last.id].avatars

\* What createCard registers and places, for the card id it returns.
CreateCardRegisters(id) ==
  LET prop == cards'[id]
      made == {loc \o id : loc \in {l \in DOMAIN prop.avatars :
                                      Matches(l, getCurrentWorkspaceUrl)}}
      n    == Len(wsAvatars)
  IN  \* exactly one Card, under the returned id
      /\ DOMAIN cards' = (DOMAIN cards) \cup {id}
      /\ prop.id = id
      /\ \A c \in (DOMAIN cards) \ {id} : cards'[c] = cards[c]
      \* exactly one new Avatar, with a window of its own, for each matching location
      /\ \A u \in made :
           /\ u \in DOMAIN avatars'
           /\ avatars'[u].prop.url = u
           /\ avatars'[u].win \in (DOMAIN windows') \ DOMAIN windows
           /\ \A v \in made \ {u} : avatars'[v].win # avatars'[u].win
      /\ Cardinality((DOMAIN windows') \ DOMAIN windows) = Cardinality(made)
      /\ DOMAIN windows \subseteq DOMAIN windows'
      \* and none for any other location
      /\ \A u \in (DOMAIN avatars') \ made : u \in DOMAIN avatars /\ avatars'[u] = avatars[u]
      \* exactly those urls are appended to the placement list
      /\ Len(wsAvatars') = n + Cardinality(made)
      /\ SubSeq(wsAvatars', 1, n) = wsAvatars
      /\ {wsAvatars'[i] : i \in (n + 1)..Len(wsAvatars')} = made
      \* the spec's scenario: an empty workspace and one matching location
      /\ (cards = EmptyMap /\ avatars = EmptyMap /\ wsAvatars = <<>> /\ Cardinality(made) = 1) =>
           /\ Cardinality(DOMAIN cards') = 1
           /\ Cardinality(DOMAIN avatars') = 1
           /\ Len(wsAvatars') = 1

\* The persisted records after createCard: one record for the card, the others as before.
CreateCardRecord(id) ==
  /\ id \in DOMAIN cardStore'
  /\ cardStore'[id] = CardPropToObject(cards'[id])
  /\ DOMAIN cardStore' = (DOMAIN cardStore) \cup {id}
  /\ \A c \in (DOMAIN cardStore) \ {id} : cardStore'[c] = cardStore[c]
  /\ (cardStore = EmptyMap) => Cardinality(DOMAIN cardStore') = 1

\* C4 as stated: createCard registers one Card under the returned id, one Avatar per
\* location of the card in the current workspace and none for other locations,
\* appends exactly those urls to the placement list and leaves one persisted record
\* for the card.
C4_CreateCardRegistersAndPersists ==
  [][(Step("createCard") /\ last'.outcome = "ok") =>
       CreateCardRegisters(last'.ret) /\ CreateCardRecord(last'.ret)]_vars

\* C4 amended: the same, the persisted record being left when the write of the card
\* succeeded; when it failed the persisted records are unchanged.
C4_CreateCardRegistersAndPersistsIfWritten ==
  [][(Step("createCard") /\ last'.outcome = "ok") =>
       /\ CreateCardRegisters(last'.ret)
       /\ IF last'.ioOk THEN CreateCardRecord(last'.ret) ELSE cardStore' = cardStore]_vars

\* Witness of C4: createCard was given a card with a location in the current workspace
\* and one in another workspace; one avatar is registered and placed, the card is
\* registered and persisted.
C4_Witness ==
  /\ last.op = "createCard" /\ last.outcome = "ok" /\ last.ioOk
  /\ last.ret \in DOMAIN cards
  /\ DOMAIN cards[last.ret].avatars = {LocW1A, LocW2A}
  /\ DOMAIN avatars = {LocW1A \o last.ret}
  /\ wsAvatars = <<LocW1A \o last.ret>>
  /\ DOMAIN cardStore = {last.ret}

\* C5: when an avatar render or a placement-list write fails during createCard, the
\* card is registered all the same, the card record is written all the same (it is
\* persisted whenever that write succeeds) and createCard returns the card id.
C5_CreateCardSurvivesRenderFailure ==
  (last.op = "createCard" /\ (last.renderFail # {} \/ last.addFail # {})) =>
    /\ last.outcome = "ok"
    /\ last.ret = last.id /\ last.ret # EmptyString
    /\ last.id \in DOMAIN cards /\ cards[last.id].id = last.id
    /\ last.ioOk => CardIsPersisted(last.id)

\* Witness of C5: a render and a placement-list write failed, and the card is
\* registered, persisted and its id returned.
C5_Witness ==
  /\ last.op = "createCard" /\ last.renderFail # {} /\ last.addFail # {}
  /\ last.outcome = "ok" /\ last.ret \in DOMAIN cards
  /\ CardIsPersisted(last.ret)
  /\ last.addFail \cap Range(urlStore) = {}

\* What updateAvatar(obj) does to the parent card held in memory.
UpdateAvatarOverwrites ==
  LET obj == last'.obj
      id  == getIdFromUrl(obj.url)
      loc == getAvatarLocation(obj.url)
  IN  /\ cards'[id].id = id
      /\ cards'[id].data = obj.data
      /\ DOMAIN cards'[id].avatars = (DOMAIN cards[id].avatars) \cup {loc}
      /\ cards'[id].avatars[loc] =
           [geometry |-> obj.geometry, style |-> obj.style,
            condition |-> obj.condition, date |-> obj.date]
      /\ \A l \in (DOMAIN cards[id].avatars) \ {loc} :
           cards'[id].avatars[l] = cards[id].avatars[l]

\* C8 as stated: after updateAvatar(obj) for an avatar whose parent card is
\* registered, the parent's data is obj's data, its avatars entry at the avatar's
\* location is the geometry/style/condition/date of obj, its other entries are
\* unchanged and the persisted record of the parent equals that state.
C8_UpdateAvatarOverwritesAndPersists ==
  [][(Step("updateAvatar") /\ getIdFromUrl(last'.url) \in DOMAIN cards) =>
       /\ last'.outcome = "ok"
       /\ UpdateAvatarOverwrites
       /\ getIdFromUrl(last'.url) \in DOMAIN cardStore'
       /\ cardStore'[getIdFromUrl(last'.url)] = CardPropToObject(cards'[getIdFromUrl(last'.url)])
  ]_vars

\* C8 amended: the same, the persisted record equalling the in-memory state when the
\* write of saveCard succeeded; when it failed the persisted records are unchanged.
C8_UpdateAvatarOverwritesAndPersistsIfWritten ==
  [][(Step("updateAvatar") /\ getIdFromUrl(last'.url) \in DOMAIN cards) =>
       /\ last'.outcome = "ok"
       /\ UpdateAvatarOverwrites
       /\ IF last'.ioOk
            THEN /\ getIdFromUrl(last'.url) \in DOMAIN cardStore'
                 /\ cardStore'[getIdFromUrl(last'.url)] =
                      CardPropToObject(cards'[getIdFromUrl(last'.url)])
            ELSE cardStore' = cardStore
  ]_vars

\* Witness of C8: updateAvatar changed the content and the placement feature of a
\* card that has another placement, and the card was written.
C8_Witness ==
  /\ last.op = "updateAvatar" /\ last.outcome = "ok" /\ last.ioOk
  /\ last.id \in DOMAIN cards
  /\ cards[last.id].data = "text"
  /\ cards[last.id].avatars[getAvatarLocation(last.url)] = Feature1
  /\ \E l \in DOMAIN cards[last.id].avatars :
       l # getAvatarLocation(last.url) /\ cards[last.id].avatars[l] = Feature0
  /\ CardIsPersisted(last.id)

\* C9: updateAvatar for a url whose card id is not in cards fails with an error and
\* changes neither registry, nor the placement list, nor any persisted data.
C9_UpdateAvatarUnregisteredFails ==
  [][(Step("updateAvatar") /\ getIdFromUrl(last'.url) \notin DOMAIN cards) =>
       /\ last'.outcome = "error"
       /\ UNCHANGED <<cards, avatars, windows, wsAvatars, cardStore, urlStore>>
  ]_vars

\* Witness of C9: updateAvatar failed for the url of an unregistered card while
\* another card is registered and persisted.
C9_Witness ==
  /\ last.op = "updateAvatar" /\ last.outcome = "error"
  /\ last.id \notin DOMAIN cards
  /\ cards # EmptyMap /\ cardStore # EmptyMap /\ avatars # EmptyMap

-----------------------------------------------------------------------------
(* Properties of deleteCardWithRetry *)

\* C6: one deleteCardWithRetry call attempts the persistence delete at most 5 times,
\* with at least 1000 ms between consecutive attempts and no attempt after one that
\* succeeded, and it terminates.
C6_RetryBoundedSpacedAndTerminates ==
  /\ [](/\ retry.attempts <= 5
        /\ retry.minGap >= 1000
        /\ retry.succeeded <= 1
        /\ retry.succeeded = 1 => retry.pc = "done")
  /\ [](retry.pc # "idle" => <>(retry.pc = "done"))

\* Witness of C6: four attempts failed, a second apart, the fifth succeeded and the
\* call ended.
C6_Witness ==
  /\ retry.pc = "done" /\ retry.attempts = 5 /\ retry.failed = 4 /\ retry.succeeded = 1
  /\ retry.minGap = 1000
  /\ retry.id \notin DOMAIN cards

\* C7: when all 5 persistence-delete attempts failed, deleteCardWithRetry ends in an
\* error outcome.
C7_RetryExhaustedSurfacesError ==
  (retry.pc = "done" /\ retry.failed = 5) => retry.outcome = "rejected"

-----------------------------------------------------------------------------
(* Properties of the renderer's debounced save *)

WritesOfBurst(b) == {i \in DOMAIN renderer.writes : renderer.writes[i].burst = b}

\* The geometry the events up to and including the given one left in cardProp:
\* a resize sets width and height, a move sets x and y.
CarriesEvent(w) ==
  /\ w.event.kind = "resize" =>
       w.rect.width = w.event.newBounds.width /\ w.rect.height = w.event.newBounds.height
  /\ w.event.kind = "move" =>
       w.rect.x = w.event.newBounds.x /\ w.rect.y = w.event.newBounds.y

\* C10: for every burst of resize-by-hand / move-by-hand events (each less than
\* 1000 ms after the one before), at most one save timer is pending at any moment,
\* and the burst results in exactly one write, issued 1000 ms after its last event
\* with the geometry that event set.
C10_BurstSavedOnceAfterLastEvent ==
  /\ Cardinality(DOMAIN renderer.timers) <= 1
  /\ \A b \in 1..renderer.burst :
       /\ (b < renderer.burst \/ DOMAIN renderer.timers = {}) =>
            Cardinality(WritesOfBurst(b)) = 1
       /\ (b = renderer.burst /\ DOMAIN renderer.timers # {}) =>
            Cardinality(WritesOfBurst(b)) = 0
  /\ \A i \in DOMAIN renderer.writes :
       /\ renderer.writes[i].burst \in 1..renderer.burst
       /\ renderer.writes[i].after = 1000
       /\ renderer.writes[i].event.kind # "none"
       /\ CarriesEvent(renderer.writes[i])

\* Witness of C10: a burst of three events, a resize last, was written once, with
\* the size of the last event and the position of the move before it.
C10_Witness ==
  /\ renderer.events = 3 /\ renderer.burst = 1
  /\ Len(renderer.writes) = 1
  /\ renderer.timers = EmptyMap
  /\ renderer.lastEvent = [kind |-> "resize", newBounds |-> Rect(0, 0, 4, 3)]
  /\ renderer.writes[1].rect = Rect(1, 1, 4, 3)

-----------------------------------------------------------------------------
(* Properties of the focus control *)

\* The step handles the focus or blur event at the head of the queue, by the listener
\* of a window that is not destroyed.
Handles(type) ==
  /\ events # <<>> /\ events' = Tail(events)
  /\ Head(events).type = type
  /\ Head(events).win \in DOMAIN windows

\* The flags of the owner of window w after the step.
FlagsAfter(w) == IF w \in DOMAIN flags' THEN flags'[w] ELSE NoFlags

MessageOf(e) ==
  [win |-> e.win, channel |-> IF e.type = "focus" THEN "card-focused" ELSE "card-blurred",
   cause |-> e.cause]

\* The step is a request that sets once-flags.
SetsOnceFlags ==
  /\ nFocus' = nFocus + 1
  /\ request'.handler \in {"blur-and-focus-with-suppress-events", "bring-to-front", "send-to-back"}

\* C11: a focus (blur) event on an avatar whose suppressFocusEventOnce
\* (suppressBlurEventOnce) is set sends no card-focused (card-blurred) message and
\* resets the flag; an event that finds the flag reset is not suppressed by it: blur
\* sends card-blurred, focus sends card-focused when the gate permits. Only a request
\* sets a flag, so one set suppresses one event.
C11_OnceFlagSuppressesOneEvent ==
  [][/\ Handles("focus") =>
          LET w == Head(events).win
          IN  /\ ~FlagsAfter(w).suppressFocusEventOnce
              /\ FlagsOf(w).suppressFocusEventOnce => sent' = sent
              /\ (~FlagsOf(w).suppressFocusEventOnce
                    /\ (gate \/ FlagsOf(w).recaptureGlobalFocusEventAfterLocalFocusEvent))
                   => sent' = Append(sent, MessageOf(Head(events)))
     /\ Handles("blur") =>
          LET w == Head(events).win
          IN  /\ ~FlagsAfter(w).suppressBlurEventOnce
              /\ FlagsOf(w).suppressBlurEventOnce => sent' = sent
              /\ ~FlagsOf(w).suppressBlurEventOnce
                   => sent' = Append(sent, MessageOf(Head(events)))
     /\ \A w \in DOMAIN windows :
          (\/ FlagsAfter(w).suppressFocusEventOnce /\ ~FlagsOf(w).suppressFocusEventOnce
           \/ FlagsAfter(w).suppressBlurEventOnce /\ ~FlagsOf(w).suppressBlurEventOnce)
            => SetsOnceFlags
    ]_vars

\* Witness of C11: send-to-back set suppressFocusEventOnce of a window, the focus event
\* it caused was handled without a message and reset the flag, and the next focus
\* event of the window, by a click of the user, sent card-focused.
C11_Witness ==
  /\ request.handler = "send-to-back" /\ request.found
  /\ events = <<>> /\ nFocus = 2
  /\ \E w \in DOMAIN windows :
       /\ ~FlagsOf(w).suppressFocusEventOnce
       /\ \E i \in DOMAIN sent :
            sent[i] = [win |-> w, channel |-> "card-focused", cause |-> "user"]
       /\ \A i \in DOMAIN sent :
            ~(sent[i].win = w /\ sent[i].channel = "card-focused" /\ sent[i].cause = "send-to-back")

\* C12: the blur and focus events a blur-and-focus-with-suppress-events request
\* causes, those of other card windows included, send no card-blurred and no
\* card-focused message to any window.
C12_BlurAndFocusSendsNoMessage ==
  \A i \in DOMAIN sent : sent[i].cause # "blur-and-focus-with-suppress-events"

\* C13: after a blur-and-focus-with-suppress-events request on a registered avatar
\* the gate stays disabled until the next focus event of that avatar, and the handler
\* of that event enables the gate, leaves suppressFocusEventOnce and
\* recaptureGlobalFocusEventAfterLocalFocusEvent false and sends no card-focused.
C13_GateDisabledUntilFocusOfRequester ==
  [][/\ awaiting' # {} => ~gate'
     /\ (Handles("focus") /\ Head(events).win \in awaiting) =>
          LET w == Head(events).win
          IN  /\ gate'
              /\ ~FlagsAfter(w).suppressFocusEventOnce
              /\ ~FlagsAfter(w).recaptureGlobalFocusEventAfterLocalFocusEvent
              /\ sent' = sent
    ]_vars

-----------------------------------------------------------------------------
(* Properties of the navigation guard and of the render handshake *)

\* The scheme of the url is http or https.
IsHttpUrl(u) == u # <<>> /\ u[1] \in HttpSchemes

\* The url is neither the shell of window w nor the url of its content iframe.
Foreign(w, u) == u # TopFrameURL(page[w].url) /\ u # IframeUrl

\* The last navigation was one of a frame in the window, with checkNavigation
\* registered: checkNavigation ran on it.
GuardRan == nav.n > 0 /\ nav.frame = "iframe" /\ nav.listeners > 0

\* The step is a request of one of the handlers that look the avatar up by url and do
\* nothing without it.
RequestOfUrl ==
  \/ Focus
  \/ Blur
  \/ SetTitle
  \/ SetWindowSize
  \/ BringToFront
  \/ SendToBack
  \/ FinishRenderCard

\* C18: the step that closes an avatar's window removes its url from avatars, and a
\* focus, blur, set-title, set-window-size, bring-to-front, send-to-back or
\* finish-render-card request for a url that is not in avatars changes nothing: not
\* the registry, the windows, their focus, titles and sizes, the flags, the gate, the
\* events or the messages.
C18_ClosedAvatarDeregisteredRequestsIgnored ==
  [][/\ WindowClosed => request'.url \notin DOMAIN avatars'
     /\ (RequestOfUrl /\ request'.url \notin DOMAIN avatars) =>
          /\ ~request'.found
          /\ UNCHANGED <<registryVars, last, nOps, retry, renderer, launch, pageVars,
                          gate, flags, focused, events, sent, winState, awaiting>>
    ]_vars

\* Witness of C18: a window was closed and a set-title request for its url arrived
\* afterwards.
C18_Witness ==
  /\ request.handler = "set-title" /\ ~request.found
  /\ request.url \in Range(launch.made)
  /\ request.url \notin DOMAIN avatars
  /\ \A w \in DOMAIN windows : windows[w] # request.url
  /\ nFocus = 2

\* C14: when the guard runs on a navigation to a url that is not the shell, not the
\* content iframe and not an http(s) url, it shows the security alert and calls
\* deleteCardWithRetry, and neither prompts nor reloads.
C14_NonHttpNavigationAlertsAndDeletes ==
  (GuardRan /\ Foreign(nav.win, nav.url) /\ ~IsHttpUrl(nav.url)) =>
    /\ nav.did.dialog = "alert"
    /\ nav.did.delete
    /\ ~nav.did.reload

\* The guard took the last navigation for a foreign one: checkNavigation ran on a url
\* that is not the shell, not about:blank and does not pass for the content iframe.
Intercepted ==
  /\ GuardRan
  /\ Foreign(nav.win, nav.url)
  /\ nav.url # <<"about:blank">>
  /\ ~IsValid(TopFrameURL(page[nav.win].url), nav.url)

\* The host of an http(s) url: what follows the scheme, up to the first slash.
HostOf(u) == DomainFrom(u, 2)

C16_EveryForeignNavigationIntercepted ==
  (nav.n > 0 /\ Foreign(nav.win, nav.url)) => nav.did.branch # "unchecked"

\* C17: render-card is sent to an avatar's window only in a step that handles a
\* finish-load invocation for that avatar; render() resolves only from the state in
\* which render-card was sent and the avatar's renderingCompleted is set; a settled
\* render() stays as it is; and when the shell fails to load before render() settled,
\* render() rejects and no render-card has been or is sent.
C17_RenderCardAfterFinishLoadResolveAfterCompleted ==
  [][\A w \in DOMAIN page :
       /\ page'[w].renderCards > page[w].renderCards => page'[w].acks > page[w].acks
       /\ (page'[w].render = "resolved" /\ page[w].render # "resolved") =>
             /\ page[w].render = "rendering"
             /\ page[w].renderingCompleted
             /\ page[w].renderCards > 0
       /\ page[w].render \in {"resolved", "rejected"} => page'[w].render = page[w].render
       /\ (page'[w].load = "failed" /\ page[w].load # "failed" /\ page[w].render = "loading") =>
             /\ page'[w].render = "rejected"
             /\ page'[w].renderCards = 0
    ]_vars

\* Witness of C17: the shell acknowledged finish-load, render-card was sent and
\* rendered, finish-render-card set the flag and render() resolved, with no
\* navigation involved.
C17_Witness ==
  /\ page[1].render = "resolved"
  /\ page[1].acks = 1 /\ page[1].renderCards = 1 /\ page[1].rendered = 1
  /\ page[1].renderingCompleted /\ avatars[page[1].url].renderingCompleted
  /\ nav.n = 0

-----------------------------------------------------------------------------
(* Properties of the launch *)

\* app.on('ready') has just run: no request has been handled since.
Launched == launch.pc = "ready" /\ nOps = 0

\* C19: after a launch with a non-empty placement list, every card id that occurs in
\* the list was loaded once, whatever the number of its placements, and for every url
\* of the list one window was made, owned by the avatar registered under the url;
\* nothing else was loaded, made or registered.
C19_LaunchLoadsEachCardOnceOneAvatarPerPlacement ==
  (Launched /\ launch.list # <<>>) =>
    /\ DOMAIN launch.loads = {getIdFromUrl(u) : u \in Range(launch.list)}
    /\ \A id \in DOMAIN launch.loads : launch.loads[id] = 1
    /\ DOMAIN avatars = Range(launch.list)
    /\ DOMAIN windows = launch.wins
    /\ \A u \in Range(launch.list) :
         /\ Cardinality({w \in launch.wins : windows[w] = u}) = 1
         /\ avatars[u].win \in launch.wins
         /\ windows[avatars[u].win] = u
         /\ avatars[u].prop.url = u

\* Witness of C19: the two placements of one card were launched: one load, two
\* windows.
C19_Witness ==
  /\ Launched
  /\ launch.list = <<LocW1A \o <<"c1">>, LocW1B \o <<"c1">>>>
  /\ launch.loads[<<"c1">>] = 1
  /\ <<"c1">> \in DOMAIN cards
  /\ Cardinality(launch.wins) = 2 /\ Cardinality(DOMAIN avatars) = 2

\* The urls of the default card's placements: location and card id.
DefaultUrls == {loc \o launch.defaultId : loc \in DOMAIN cards[launch.defaultId].avatars}

\* ready found no placement and has made the default card, its avatars and the
\* in-memory placements.
DefaultCardLaunched ==
  /\ launch.defaultId \in CardIds
  /\ DOMAIN cards = {launch.defaultId}
  /\ cards[launch.defaultId] = CardPropDefault(launch.defaultId)
  /\ DOMAIN avatars = DefaultUrls
  /\ \A u \in DefaultUrls :
       /\ avatars[u].prop.url = u
       /\ avatars[u].win \in launch.wins
       /\ windows[avatars[u].win] = u
  /\ Cardinality(launch.wins) = Cardinality(DefaultUrls)
  /\ \A u \in DefaultUrls : CountIn(wsAvatars, u) = 1

\* C20 as stated: after a launch that found no placement there is one default card,
\* registered and persisted, one avatar registered for each of its locations, and
\* the url of each is in the in-memory and in the persisted placement list.
C20_EmptyLaunchCreatesDefaultCardPersisted ==
  (Launched /\ launch.list = <<>>) =>
    /\ DefaultCardLaunched
    /\ launch.defaultId \in DOMAIN cardStore
    /\ cardStore[launch.defaultId] = CardPropToObject(cards[launch.defaultId])
    /\ \A u \in DefaultUrls : CountIn(urlStore, u) = 1

\* C20, amended: the default card, its avatars and the in-memory placements are
\* always there; the record of the card is persisted when updateOrCreateCardData
\* succeeds, and each url is in the persisted list when its addAvatarUrl succeeds.
C20_EmptyLaunchCreatesDefaultCardPersistedIfWritten ==
  (Launched /\ launch.list = <<>>) =>
    /\ DefaultCardLaunched
    /\ launch.saveOk =>
         /\ launch.defaultId \in DOMAIN cardStore
         /\ cardStore[launch.defaultId] = CardPropToObject(cards[launch.defaultId])
    /\ \A u \in DefaultUrls \ launch.addFail : CountIn(urlStore, u) = 1

\* Witness of C20: a launch from an empty store made the default card and wrote its
\* record and its placement.
C20_Witness ==
  /\ Launched /\ launch.list = <<>> /\ launch.listOk
  /\ launch.saveOk /\ launch.addFail = {}
  /\ launch.defaultId \in DOMAIN cardStore
  /\ DefaultUrls # {}
  /\ DefaultUrls \subseteq (DOMAIN avatars) \cap Range(wsAvatars) \cap Range(urlStore)

\* ready has just raised the windows: no window was focused or closed since.
JustRaised == Launched /\ nFocus = 0

\* The urls of seq are in ascending order of the geometry.z of their avatars.
AscendingZ(seq) ==
  \A i, j \in DOMAIN seq :
    i < j => avatars[seq[i]].prop.geometry.z <= avatars[seq[j]].prop.geometry.z

\* C21: when the launch has raised the windows, no render was still in progress, every
\* registered avatar was raised once, in ascending order of its geometry.z, and the
\* windows that are shown are stacked from back to front in ascending order of z.
C21_LaunchRaisesWindowsInAscendingZ ==
  JustRaised =>
    /\ launch.pending = {}
    /\ Range(launch.raised) = DOMAIN avatars
    /\ Len(launch.raised) = Cardinality(DOMAIN avatars)
    /\ AscendingZ(launch.raised)
    /\ Range(launch.stack) = (DOMAIN avatars) \ launch.renderFail
    /\ AscendingZ(launch.stack)

-----------------------------------------------------------------------------
(* Properties of the z-order requests *)

\* The geometry.z of the registered avatars.
RegisteredZ == {avatars[u].prop.geometry.z : u \in DOMAIN avatars}

\* C22: a bring-to-front request for a registered url returns a z greater than the z
\* of every registered avatar, the greatest plus one; a send-to-back request returns
\* a z smaller than every one, the smallest minus one; the registries are unchanged.
C22_ZRequestsReturnBeyondEveryZ ==
  [][(nFocus' = nFocus + 1 /\ request'.found
        /\ request'.handler \in {"bring-to-front", "send-to-back"}) =>
       /\ avatars' = avatars /\ cards' = cards
       /\ request'.url \in DOMAIN avatars
       /\ request'.handler = "bring-to-front" =>
            /\ \A z \in RegisteredZ : request'.ret > z
            /\ request'.ret - 1 \in RegisteredZ
       /\ request'.handler = "send-to-back" =>
            /\ \A z \in RegisteredZ : request'.ret < z
            /\ request'.ret + 1 \in RegisteredZ]_vars

\* Witness of C22: the avatar at the back of two asked to be brought to the front and
\* was returned the z above the other's.
C22_Witness ==
  /\ request.handler = "bring-to-front" /\ request.found
  /\ Cardinality(RegisteredZ) = 2
  /\ request.url \in DOMAIN avatars
  /\ avatars[request.url].prop.geometry.z = 0
  /\ request.ret = 2

-----------------------------------------------------------------------------
(* Properties of render() *)

\* What the user sees of a view: the DOM, the contents frame, the editor, and the
\* title of the window (the last title sent to the main process).
Rendered(v) ==
  [dom |-> v.dom,
   title |-> IF v.invoked = <<>> THEN Unset ELSE v.invoked[Len(v.invoked)].title]

\* C23: in every state a card window's renderer reaches, rendering one option and
\* then everything shows what rendering everything shows, and rendering everything
\* twice shows what rendering it once shows.
C23_FullRenderAfterAnyOptionIsFullRender ==
  LET v    == renderer.view
      full == render(v, DefaultOptions)
  IN  /\ \A o \in CardRenderOptions :
           Rendered(render(render(v, <<o>>), DefaultOptions)) = Rendered(full)
      /\ Rendered(render(full, DefaultOptions)) = Rendered(full)

\* Witness of C23: one option alone was rendered after cardProp changed, and the view
\* is not yet what a full render shows.
C23_Witness ==
  /\ renderer.view.options = <<"ContentsRect">>
  /\ renderer.view.dom.contentsWidth # Unset
  /\ renderer.view.dom.titleBarWidth # Unset
  /\ Rendered(render(renderer.view, DefaultOptions)) # Rendered(renderer.view)

\* C24: render([o]) changes no part of the DOM but those of o and invokes nothing on
\* the main process; an option render() does not know changes nothing.
C24_OptionChangesOnlyItsOwnPart ==
  LET v == renderer.view
  IN  /\ \A o \in CardRenderOptions :
           LET after == render(v, <<o>>)
           IN  /\ \A part \in (DOMAIN v.dom) \ PartsOf(o) : after.dom[part] = v.dom[part]
               /\ after.invoked = v.invoked
               /\ after.prop = v.prop
      /\ \A o \in {"Decoration", "EditorColor"} : render(v, <<o>>) = v

-----------------------------------------------------------------------------
(* Properties of the registry under failures *)

\* A registry operation has just ended.
Ended(op) == nOps' = nOps + 1 /\ last'.op = op

\* C25: whatever the persistence layer answers, createCard, deleteCard, deleteAvatar
\* and updateAvatar leave the cards, the avatars, the in-memory placement list and the
\* parent CardProp as they leave them when persistence succeeds.
C25_PersistenceFailureKeepsMemoryMutation ==
  [][/\ Ended("createCard") =>
          LET prop == CardNew(CardPropFromObject(last'.obj), last'.id)
              urls == {loc \o prop.id : loc \in Range(RenderedLocs(prop))}
          IN  /\ cards' = Put(cards, prop.id, prop)
              /\ DOMAIN avatars' = (DOMAIN avatars) \cup urls
              /\ \A u \in urls : CountIn(wsAvatars', u) = CountIn(wsAvatars, u) + 1
              /\ Len(wsAvatars') = Len(wsAvatars) + Cardinality(urls)
     /\ (Ended("deleteCard") /\ last'.id \in DOMAIN cards) =>
          /\ cards' = Del(cards, last'.id)
          /\ wsAvatars' = wsAvatars
     /\ (Ended("deleteAvatar") /\ last'.url \in DOMAIN avatars) =>
          /\ last'.url \notin DOMAIN avatars'
          /\ wsAvatars' = Without(wsAvatars, last'.url)
          /\ \A c \in getCardFromUrl(cards, last'.url) :
               cards' = [cards EXCEPT ![c.id] = DeletePlacement(c, last'.url)]
     /\ Ended("updateAvatar") =>
          /\ \A c \in getCardFromUrl(cards, last'.url) :
               cards' = [cards EXCEPT
                           ![c.id] = OverwriteCard(c, AvatarPropFromObject(last'.obj))]
          /\ avatars' = avatars /\ wsAvatars' = wsAvatars]_vars

\* C26: when the hydration of its payload fails, createCard or updateAvatar throws and
\* the cards, the avatars, the windows, the placement list and the persisted records
\* and placements are what they were.
C26_ValidationErrorThrowsAndChangesNothing ==
  [][/\ (Ended("createCard") /\ ~ValidCardObject(last'.obj)) =>
          /\ last'.outcome = "invalid"
          /\ UNCHANGED registryVars
     /\ (Ended("updateAvatar") /\ ~ValidAvatarObject(last'.obj)) =>
          /\ last'.outcome = "invalid"
          /\ UNCHANGED registryVars]_vars

\* Witness of C26: with a card registered, an updateAvatar whose payload has no
\* well-formed url has thrown.
C26_Witness ==
  /\ last.op = "updateAvatar" /\ last.outcome = "invalid"
  /\ ~ValidAvatarObject(last.obj)
  /\ <<"c1">> \in DOMAIN cards
  /\ DOMAIN avatars # {}

-----------------------------------------------------------------------------
(* Invariants of the registry *)

\* C27: every card is registered under its own id, which is not empty, and every
\* avatar under its own url; createCard keeps a non-empty id of its payload and
\* generates a fresh one for an empty id; no operation changes the id of a card that
\* stays registered.
C27_RegistryKeysAreIdsAndUrls ==
  /\ [](/\ \A id \in DOMAIN cards : cards[id].id = id /\ id # EmptyString
        /\ \A u \in DOMAIN avatars : avatars[u].prop.url = u)
  /\ [][/\ Ended("createCard") =>
             /\ last'.id \in DOMAIN cards' /\ last'.id # EmptyString
             /\ last'.obj.id # EmptyString => last'.id = last'.obj.id
             /\ last'.obj.id = EmptyString => last'.id \notin IdsInUse
        /\ \A id \in (DOMAIN cards) \cap (DOMAIN cards') : cards'[id].id = cards[id].id]_vars

\* Witness of C27: after the launch loaded a card, createCard was given a payload
\* with no id and registered it under a generated id.
C27_Witness ==
  /\ launch.pc = "ready" /\ launch.list # <<>>
  /\ last.op = "createCard" /\ last.obj.id = EmptyString
  /\ last.id \in DOMAIN cards
  /\ Cardinality(DOMAIN cards) = 2

\* C28: the data of every registered avatar whose card is registered is the data of
\* that card, so that the render-card an avatar sends again on a reload (its own
\* prop) carries the content of the card.
C28_AvatarDataIsCardData ==
  \A u \in DOMAIN avatars :
    \A c \in getCardFromUrl(cards, u) : avatars[u].prop.data = c.data

\* C29: between operations every registered avatar has a url whose card id is
\* registered in cards: none outlives its card, none is made at launch for a card
\* that could not be loaded.
C29_EveryAvatarHasItsCard ==
  \A u \in DOMAIN avatars : getIdFromUrl(u) \in DOMAIN cards

\* C30: the workspace placement list is a set: after any sequence of createCard,
\* deleteAvatar and deleteCard requests, createCard payloads with an id that is
\* already registered included, no avatar url occurs twice in the in-memory list.
C30_PlacementListIsASet ==
  \A u \in Range(wsAvatars) : CountIn(wsAvatars, u) = 1

-----------------------------------------------------------------------------
(* Invariants of the placement list *)

\* C31: between operations every url of the workspace placement list, in memory and
\* persisted, decomposes to a card id that has a persisted record; in particular
\* after a successful deleteCard(id) the list holds no url of card id.
C31_PlacementsHavePersistedCards ==
  \A u \in Range(wsAvatars) \cup Range(urlStore) : getIdFromUrl(u) \in DOMAIN cardStore

-----------------------------------------------------------------------------
(* Properties of the focus gate under window close *)

\* The registered avatars with a live window whose focus listener will re-enable the gate.
Recapturers ==
  {u \in DOMAIN avatars :
     /\ avatars[u].win \in DOMAIN windows
     /\ FlagsOf(avatars[u].win).recaptureGlobalFocusEventAfterLocalFocusEvent}

\* C32: whenever the global focus gate is disabled at the end of a callback, some
\* avatar that is still registered with a live window has
\* recaptureGlobalFocusEventAfterLocalFocusEvent set, so a later focus event
\* re-enables the gate.
C32_DisabledGateHasLiveRecapturer ==
  ~gate => Recapturers # {}

-----------------------------------------------------------------------------
(* Properties of the messages sent to a window *)

\* The channels of the card-focused and card-blurred messages sent to window w, in
\* the order they were sent.
RECURSIVE ChannelsTo(_, _)
ChannelsTo(msgs, w) ==
  IF msgs = <<>> THEN <<>>
  ELSE (IF Head(msgs).win = w THEN <<Head(msgs).channel>> ELSE <<>>)
         \o ChannelsTo(Tail(msgs), w)

\* card-focused and card-blurred alternate, card-focused first.
Alternates(chs) ==
  \A i \in DOMAIN chs :
    chs[i] = (IF i % 2 = 1 THEN "card-focused" ELSE "card-blurred")

\* C33: the card-focused and card-blurred messages sent to a window strictly
\* alternate, starting with card-focused: card-blurred is sent only when the most
\* recent of the two sent to that window was card-focused.
C33_FocusedAndBlurredAlternate ==
  \A i \in DOMAIN sent : Alternates(ChannelsTo(sent, sent[i].win))

-----------------------------------------------------------------------------
(* Properties of the debounced save under close *)

\* C34: every geometry change applied by a resize-by-hand or move-by-hand event is
\* persisted: when the card window is closed while a debounced save is pending, the
\* pending geometry is saved before the window goes away, so once the window is
\* closed the last saveData call carried the geometry of the last event.
C34_ClosedWindowSavedLastGeometry ==
  (renderer.closed /\ renderer.events > 0) =>
    /\ renderer.writes # <<>>
    /\ renderer.writes[Len(renderer.writes)].rect = renderer.rect

-----------------------------------------------------------------------------
(* Properties of the replacement of an avatar on an iframe reload *)

\* The windows of the replacement Avatars made by checkNavigation.
Replacements == {w \in DOMAIN page : page[w].replaces # 0}

\* C35: the render() of the replacement Avatar made on a reload of the content
\* iframe can complete its handshake: it is not rejected unless the shell of the
\* replacement fails to load, so that the window it replaces is destroyed and the
\* registry maps the url to the replacement.
C35_ReplacementRenderNotRejected ==
  \A w \in Replacements : page[w].render = "rejected" => page[w].load = "failed"

\* C36: the closed event of a window removes from the registry only the avatar that
\* owns the window: an avatar whose own window is still there after a step is still
\* registered under its url, so every live window of a registered avatar stays
\* reachable through the registry.
C36_ClosedRemovesOnlyItsOwner ==
  [][\A u \in DOMAIN avatars :
       avatars[u].win \in DOMAIN windows' => u \in DOMAIN avatars']_vars

-----------------------------------------------------------------------------
(* Properties of successive bring-to-front requests *)

\* C37: when the z a bring-to-front request returned was stored through
\* update-avatar before the next bring-to-front request, the next request returns a
\* strictly greater z, so that no two avatars brought to the front share a z.
C37_StoredZMakesNextZGreater ==
  [][(/\ nFocus' = nFocus + 1
      /\ request'.handler = "bring-to-front" /\ request'.found
      /\ ZStored) => request'.ret > request.ret]_vars

-----------------------------------------------------------------------------
(* Properties of the loads of the launch *)

\* C38: at launch no Avatar is constructed before every card load has settled: even
\* when the load of one card fails, the avatar of every placement of a card that
\* loaded carries that card's data and the feature of its placement.
C38_LaunchAvatarsMadeFromLoadedCards ==
  Launched =>
    \A u \in DOMAIN avatars :
      getIdFromUrl(u) \in DOMAIN cards => avatars[u].prop = AvatarPropAt(cards, u)

====
